---------------------------- MODULE Spec2Model ----------------------------
(***************************************************************************)
(* A model of the roots-scoped filesystem tools of nex_suites              *)
(* (backend/nex_suites/tools/filesystem.py) and of the MCP client that     *)
(* answers the server's roots queries (backend/nex_suites/mcp_client.py).  *)
(*                                                                         *)
(* A path is the sequence of its components below "/": "/tmp/sub" is       *)
(* <<"tmp", "sub">> and "/" is << >>.  A file name that a glob has to look *)
(* into is given character by character by Chars.                          *)
(*                                                                         *)
(* The server is an asyncio program: a tool runs without interruption from *)
(* one await to the next.  The only awaits of filesystem.py that give      *)
(* control away are the roots queries (ctx.session.list_roots()), so the   *)
(* model lets the environment act only while a query is in flight or no    *)
(* tool is running.  The tools share no state but the disk and the         *)
(* client's roots, which the environment actions change, so one tool call  *)
(* at a time shows every behaviour of a single call.                       *)
(***************************************************************************)
EXTENDS Naturals, Sequences, FiniteSets, Bags, TLC

VARIABLES
    disk,         \* the directory tree: canonical path -> node
    clientRoots,  \* MCPClient._roots: the list of Root URIs the client grants
    pc,           \* where the running tool call stands ("idle": none runs)
    call,         \* the running tool call: its name and arguments
    rootsResult,  \* the answer to the roots query in flight
    scan,         \* find_documents: the roots still to search and the hits
    result,       \* the value the finished call returned
    error,        \* the error the finished call raised
    trace,        \* what the running call has done so far, in order
    info          \* the ctx.info diagnostics of the running call

vars == <<disk, clientRoots, pc, call, rootsResult, scan, result, error, trace, info>>

-----------------------------------------------------------------------------
(* Bounds *)

\* The longest list of roots a client grants.
MaxRoots == 2

-----------------------------------------------------------------------------
(* Sequences *)

Last(s) == s[Len(s)]

Front(s) == SubSeq(s, 1, Len(s) - 1)

IsPrefix(s, t) == Len(s) <= Len(t) /\ SubSeq(t, 1, Len(s)) = s

Range(s) == {s[i] : i \in DOMAIN s}

SeqsUpTo(S, n) == UNION {[1..k -> S] : k \in 0..n}

\* The characters of the names the tree, the requests and the patterns use.
Chars(name) ==
    CASE name = "tmp"         -> <<"t", "m", "p">>
      [] name = "etc"         -> <<"e", "t", "c">>
      [] name = "home"        -> <<"h", "o", "m", "e">>
      [] name = "user"        -> <<"u", "s", "e", "r">>
      [] name = "user2"       -> <<"u", "s", "e", "r", "2">>
      [] name = "sub"         -> <<"s", "u", "b">>
      [] name = "lnk"         -> <<"l", "n", "k">>
      [] name = "passwd"      -> <<"p", "a", "s", "s", "w", "d">>
      [] name = "receipt.pdf" -> <<"r", "e", "c", "e", "i", "p", "t", ".", "p", "d", "f">>
      [] name = "inv.PDF"     -> <<"i", "n", "v", ".", "P", "D", "F">>
      [] name = "b.pdf"       -> <<"b", ".", "p", "d", "f">>
      [] name = "notes.txt"   -> <<"n", "o", "t", "e", "s", ".", "t", "x", "t">>
      [] name = "x.pdf"       -> <<"x", ".", "p", "d", "f">>
      [] name = "a.png"       -> <<"a", ".", "p", "n", "g">>
      [] name = ".png"        -> <<".", "p", "n", "g">>
      [] name = "doc.jpg"     -> <<"d", "o", "c", ".", "j", "p", "g">>
      [] name = "missing.pdf" -> <<"m", "i", "s", "s", "i", "n", "g", ".", "p", "d", "f">>
      [] name = "out.md"      -> <<"o", "u", "t", ".", "m", "d">>
      [] name = "box"         -> <<"b", "o", "x">>
      [] name = "b.txt"       -> <<"b", ".", "t", "x", "t">>
      [] name = "A_dir"       -> <<"A", "_", "d", "i", "r">>
      [] name = "a.txt"       -> <<"a", ".", "t", "x", "t">>
      [] name = "c.txt"       -> <<"c", ".", "t", "x", "t">>
      [] name = ".."          -> <<".", ".">>
      [] name = ""            -> << >>

UpperCase ==
    <<"A", "B", "C", "D", "E", "F", "G", "H", "I", "J", "K", "L", "M", "N", "O", "P", "Q", "R",
      "S", "T", "U", "V", "W", "X", "Y", "Z">>

LowerCase ==
    <<"a", "b", "c", "d", "e", "f", "g", "h", "i", "j", "k", "l", "m", "n", "o", "p", "q", "r",
      "s", "t", "u", "v", "w", "x", "y", "z">>

\* str.lower() on one character.
Lower(c) ==
    IF \E i \in DOMAIN UpperCase : UpperCase[i] = c
    THEN LowerCase[CHOOSE i \in DOMAIN UpperCase : UpperCase[i] = c]
    ELSE c

LowerSeq(s) == [i \in DOMAIN s |-> Lower(s[i])]

-----------------------------------------------------------------------------
(* The directory tree *)

Dir == [kind |-> "dir"]

File(n) == [kind |-> "file", size |-> n]

Link(target) == [kind |-> "link", target |-> target]

\* The tree every behaviour starts from.  A link's target is a canonical
\* path of the tree that is no link itself.
BaseTree ==
    (<< >>                         :> Dir) @@
    (<<"tmp">>                     :> Dir) @@
    (<<"tmp", "receipt.pdf">>      :> File(3)) @@
    (<<"tmp", "x.pdf">>            :> Dir) @@
    (<<"tmp", "lnk">>              :> Link(<<"etc">>)) @@
    (<<"tmp", "sub">>              :> Dir) @@
    (<<"tmp", "sub", "inv.PDF">>   :> File(5)) @@
    (<<"tmp", "sub", "notes.txt">> :> File(1)) @@
    (<<"etc">>                     :> Dir) @@
    (<<"etc", "passwd">>           :> File(2)) @@
    (<<"home">>                    :> Dir) @@
    (<<"home", "user">>            :> Dir) @@
    (<<"home", "user", "doc.jpg">> :> File(4)) @@
    (<<"home", "user", "box">>     :> Dir) @@
    (<<"home", "user", "box", "b.txt">> :> File(9)) @@
    (<<"home", "user", "box", "A_dir">> :> Dir) @@
    (<<"home", "user", "box", "A_dir", "c.txt">> :> File(10)) @@
    (<<"home", "user", "box", "a.txt">> :> File(11)) @@
    (<<"home", "user2">>           :> Dir) @@
    (<<"home", "user2", "a.png">>  :> File(6))

\* Files a tree may hold besides.
OptionalFiles ==
    (<<"tmp", "sub", "b.pdf">>     :> File(7)) @@
    (<<"home", "user", ".png">>    :> File(8))

Trees ==
    {BaseTree @@ [p \in S |-> OptionalFiles[p]] : S \in SUBSET DOMAIN OptionalFiles}

Kind(d, p) == IF p \in DOMAIN d THEN d[p].kind ELSE "none"

Children(d, p) == {q \in DOMAIN d : Len(q) = Len(p) + 1 /\ IsPrefix(p, q)}

\* os.path.realpath, not strict: "." and "" are dropped, ".." drops the
\* component before it, a link is replaced by its target, and what does not
\* exist is kept as written.
RECURSIVE ResolveFrom(_, _, _)
ResolveFrom(d, cur, rest) ==
    IF rest = << >> THEN cur
    ELSE LET c  == Head(rest)
             nx == Append(cur, c)
         IN  IF c = "" \/ c = "." THEN ResolveFrom(d, cur, Tail(rest))
             ELSE IF c = ".."
                  THEN ResolveFrom(d, IF cur = << >> THEN cur ELSE Front(cur), Tail(rest))
             ELSE IF Kind(d, nx) = "link"
                  THEN ResolveFrom(d, d[nx].target, Tail(rest))
             ELSE ResolveFrom(d, nx, Tail(rest))

\* Path(p).resolve() of an absolute path.
Resolve(d, p) == ResolveFrom(d, << >>, p)

\* Path.exists(), is_file(), is_dir(): they follow links.
Exists(d, p) == Kind(d, Resolve(d, p)) # "none"

IsFile(d, p) == Kind(d, Resolve(d, p)) = "file"

\* A slip: whatever exists passes for a directory.
IsDirLax(d, p) == Exists(d, p)

IsDir(d, p) == Kind(d, Resolve(d, p)) = "dir"

\* Path.parent: the parent of "/" is "/".
Parent(p) == IF p = << >> THEN p ELSE Front(p)

\* Path(s) of a string: empty components and "." are dropped, ".." is kept.
PurePath(p) == SelectSeq(p, LAMBDA c : c # "" /\ c # ".")

-----------------------------------------------------------------------------
(* Roots: the client's grant and the server's reading of it *)

\* FileUrl(f"file://{p}"): the URI of an absolute path, split at "/".
FileUrl(p) == <<"file:", "", "">> \o p

\* core.utils.file_url_to_path: the path of a file URI.
file_url_to_path(uri) == SubSeq(uri, 4, Len(uri))

\* The name a root is given: its last component, or "Root" for "/".
RootName(p) == IF p = << >> THEN "Root" ELSE Last(p)

\* MCPClient._create_roots: every path resolved, then wrapped in a Root.
CreateRoots(d, root_paths) ==
    [i \in DOMAIN root_paths |->
        LET p == Resolve(d, root_paths[i])
        IN  [uri |-> FileUrl(p), name |-> RootName(p)]]

\* The directories a user grants.
RootCands == {<<"tmp">>, <<"tmp", "sub">>, <<"home", "user">>}

RootLists == SeqsUpTo(RootCands, MaxRoots)

\* PurePath.relative_to succeeds: root's components begin p's.
RelativeTo(p, root) == IsPrefix(root, p)

\* The path is_path_allowed compares with the roots: the resolved path, or
\* its parent when it is a file.
CheckedPath(d, requested_path) ==
    LET rp == Resolve(d, requested_path)
    IN  IF IsFile(d, rp) THEN Parent(rp) ELSE rp

\* A slip in is_path_allowed: the loop over the roots is left out.
IsPathAllowedNoRoots(d, client_roots, requested_path) ==
    Exists(d, Resolve(d, requested_path))

\* is_path_allowed once the roots query has answered client_roots.
IsPathAllowed(d, client_roots, requested_path) ==
    LET rp == Resolve(d, requested_path)
    IN  IF ~Exists(d, rp) THEN FALSE
        ELSE \E i \in DOMAIN client_roots :
                RelativeTo(CheckedPath(d, rp), file_url_to_path(client_roots[i].uri))

\* list_roots: the roots as path strings, in the client's order.
RootPaths(client_roots) ==
    [i \in DOMAIN client_roots |-> file_url_to_path(client_roots[i].uri)]

-----------------------------------------------------------------------------
(* Path.glob *)

Names ==
    {"tmp", "etc", "home", "user", "user2", "sub", "lnk", "passwd", "receipt.pdf",
     "inv.PDF", "b.pdf", "notes.txt", "x.pdf", "a.png", ".png", "doc.jpg",
     "missing.pdf", "out.md", "box", "b.txt", "A_dir", "a.txt", "c.txt", ".."}

\* The index of the "]" that closes the class opened at pat[i], or 0: as in
\* fnmatch.translate, a "!" and then a "]" right after the "[" do not close.
ClassEnd(pat, i) ==
    LET j0 == IF i + 1 <= Len(pat) /\ pat[i + 1] = "!" THEN i + 2 ELSE i + 1
        j1 == IF j0 <= Len(pat) /\ pat[j0] = "]" THEN j0 + 1 ELSE j0
        closing == {j \in j1..Len(pat) : pat[j] = "]"}
    IN  IF closing = {} THEN 0 ELSE CHOOSE j \in closing : \A k \in closing : j <= k

\* Whether character c is in the class pat[i..e] (the patterns of the model
\* use no ranges).
InClass(pat, i, e, c) ==
    IF pat[i + 1] = "!"
    THEN \A k \in (i + 2)..(e - 1) : pat[k] # c
    ELSE \E k \in (i + 1)..(e - 1) : pat[k] = c

\* fnmatch, case-sensitive: pat[i..] matches name[j..].
RECURSIVE FnMatchFrom(_, _, _, _)
FnMatchFrom(pat, i, name, j) ==
    IF i > Len(pat) THEN j > Len(name)
    ELSE IF pat[i] = "*"
         THEN \E k \in j..(Len(name) + 1) : FnMatchFrom(pat, i + 1, name, k)
    ELSE IF j > Len(name) THEN FALSE
    ELSE IF pat[i] = "?" THEN FnMatchFrom(pat, i + 1, name, j + 1)
    ELSE IF pat[i] = "[" /\ ClassEnd(pat, i) # 0
         THEN InClass(pat, i, ClassEnd(pat, i), name[j])
              /\ FnMatchFrom(pat, ClassEnd(pat, i) + 1, name, j + 1)
    ELSE pat[i] = name[j] /\ FnMatchFrom(pat, i + 1, name, j + 1)

FnMatch(pat, name) == FnMatchFrom(pat, 1, name, 1)

\* A pattern string split at "/".
RECURSIVE SplitFrom(_, _, _)
SplitFrom(s, i, cur) ==
    IF i > Len(s) THEN <<cur>>
    ELSE IF s[i] = "/" THEN <<cur>> \o SplitFrom(s, i + 1, << >>)
    ELSE SplitFrom(s, i + 1, Append(cur, s[i]))

\* The parts of a glob pattern: empty parts and "." are dropped.
PatternParts(s) ==
    SelectSeq(SplitFrom(s, 1, << >>), LAMBDA part : part # << >> /\ part # <<".">>)

StarStar == <<"*", "*">>

\* pathlib._is_wildcard_pattern
IsWildcardPattern(part) == \E i \in DOMAIN part : part[i] \in {"*", "?", "["}

\* pathlib._make_selector raises ValueError: "**" inside a longer part.
InvalidParts(parts) ==
    \E k \in DOMAIN parts :
        /\ parts[k] # StarStar
        /\ \E i \in 1..(Len(parts[k]) - 1) : parts[k][i] = "*" /\ parts[k][i + 1] = "*"

\* The directories "**" walks from p: p and, below it, every directory
\* reached through directories; a link to a directory is not followed.
RECURSIVE DirsUnder(_, _)
DirsUnder(d, p) ==
    {p} \cup UNION {DirsUnder(d, Append(p, Last(q))) :
                        q \in {c \in Children(d, Resolve(d, p)) : d[c].kind = "dir"}}

\* The paths the selectors of parts yield from the directories parents.  A
\* part that is not the last lets only directories through.
RECURSIVE Select(_, _, _)
Select(d, parents, parts) ==
    IF parts = << >> THEN parents
    ELSE LET part == Head(parts)
             ok(q) == IF Len(parts) > 1 THEN IsDir(d, q) ELSE TRUE
             step(p) ==
                 IF part = StarStar THEN DirsUnder(d, p)
                 ELSE IF IsWildcardPattern(part)
                      THEN {q \in {Append(p, Last(c)) : c \in Children(d, Resolve(d, p))} :
                                FnMatch(part, Chars(Last(q))) /\ ok(q)}
                 ELSE {q \in {Append(p, n) : n \in {m \in Names : Chars(m) = part}} :
                            IF Len(parts) > 1 THEN IsDir(d, q) ELSE Exists(d, q)}
         IN  Select(d, UNION {step(p) : p \in parents}, Tail(parts))

\* Path(root).glob(pattern): nothing when root is no directory.
Glob(d, root, pattern) ==
    IF ~IsDir(d, root) THEN {} ELSE Select(d, {root}, PatternParts(pattern))

-----------------------------------------------------------------------------
(* find_documents: from a pattern to the hits of one root *)

\* DocumentConverter.SUPPORTED_INPUT_FORMATS
SUPPORTED_INPUT_FORMATS ==
    <<<<"p", "d", "f">>, <<"j", "p", "g">>, <<"j", "p", "e", "g">>, <<"p", "n", "g">>>>

\* DocumentConverter.OUTPUT_FORMATS
\* A slip: the token is let through whatever its case.
OUTPUT_FORMATS_Lax == <<"text", "markdown", "json", "TEXT", "MARKDOWN", "JSON">>

OUTPUT_FORMATS == <<"text", "markdown", "json">>

\* PurePath.suffix: from the last "." on, unless the name starts or ends
\* with that ".".
Suffix(name) ==
    LET dots == {i \in DOMAIN name : name[i] = "."}
        i    == IF dots = {} THEN 0 ELSE CHOOSE k \in dots : \A m \in dots : m <= k
    IN  IF 1 < i /\ i < Len(name) THEN SubSeq(name, i, Len(name)) ELSE << >>

\* suffix.lower()[1:]
Extension(name) == LET sfx == LowerSeq(Suffix(name)) IN SubSeq(sfx, 2, Len(sfx))

\* '*' in pattern or '?' in pattern
HasGlobChars(pattern) == \E i \in DOMAIN pattern : pattern[i] \in {"*", "?"}

\* The pattern find_documents hands to root.glob.
GlobPattern(pattern) ==
    IF HasGlobChars(pattern)
    THEN <<"*", "*", "/">> \o pattern
    ELSE <<"*", "*", "/", "*">> \o pattern \o <<"*">>

\* A slip: the test of the extension is left out.
IsDocumentAnyFile(d, match) == IsFile(d, match)

\* match.is_file() and ext in SUPPORTED_INPUT_FORMATS
IsDocument(d, match) ==
    /\ IsFile(d, match)
    /\ Extension(Chars(Last(match))) \in Range(SUPPORTED_INPUT_FORMATS)

\* The record find_documents appends for a match.
Hit(d, root, match) ==
    [path      |-> match,
     name      |-> Last(match),
     extension |-> Extension(Chars(Last(match))),
     size      |-> d[Resolve(d, match)].size,
     root      |-> root]

\* Everything one root contributes when its scan runs to the end.
RootHits(d, root, pattern) ==
    {Hit(d, root, match) :
        match \in {m \in Glob(d, root, GlobPattern(pattern)) : IsDocument(d, m)}}

\* root.glob raises at once: the pattern is no valid glob.
GlobRaises(pattern) == InvalidParts(PatternParts(GlobPattern(pattern)))

-----------------------------------------------------------------------------
(* read_directory: the entries and their order *)

\* The characters of the names, in code point order.
Alphabet ==
    <<".", "2", "A", "D", "F", "P", "_", "a", "b", "c", "d", "e", "f", "g", "h", "i", "j",
      "k", "l", "m", "n", "o", "p", "r", "s", "t", "u", "v", "w", "x">>

Ord(c) == CHOOSE i \in DOMAIN Alphabet : Alphabet[i] = c

\* s <= t for Python strings.
RECURSIVE StrLeq(_, _)
StrLeq(s, t) ==
    IF s = << >> THEN TRUE
    ELSE IF t = << >> THEN FALSE
    ELSE IF Head(s) = Head(t) THEN StrLeq(Tail(s), Tail(t))
    ELSE Ord(Head(s)) < Ord(Head(t))

\* The record read_directory builds for a child of the directory.
Entry(d, entry) ==
    IF IsFile(d, entry)
    THEN [name |-> Last(entry), type |-> "file", path |-> entry,
          extension |-> LowerSeq(Suffix(Chars(Last(entry)))),
          size |-> d[Resolve(d, entry)].size]
    ELSE [name |-> Last(entry), type |-> IF IsDir(d, entry) THEN "directory" ELSE "file",
          path |-> entry]

\* A slip: the entries are sorted by name alone.
KeyLeqNameOnly(e, f) == StrLeq(LowerSeq(Chars(e.name)), LowerSeq(Chars(f.name)))

\* The sort key (x["type"] == "file", x["name"].lower()) of e is at most f's.
KeyLeq(e, f) ==
    IF (e.type = "file") # (f.type = "file") THEN f.type = "file"
    ELSE StrLeq(LowerSeq(Chars(e.name)), LowerSeq(Chars(f.name)))

RECURSIVE SortEntries(_)
SortEntries(S) ==
    IF S = {} THEN << >>
    ELSE LET first == CHOOSE e \in S : \A f \in S : KeyLeq(e, f)
         IN  <<first>> \o SortEntries(S \ {first})

\* files, after files.sort(...)
Listing(d, requested_path) ==
    SortEntries({Entry(d, c) : c \in Children(d, requested_path)})

-----------------------------------------------------------------------------
(* The tool calls *)

NoRoot == [kind |-> "none", str |-> << >>]

\* root_path == "": a string, and false as a condition.
EmptyRoot == [kind |-> "empty", str |-> << >>]

RootArg(p) == [kind |-> "path", str |-> p]

NoCall ==
    [op |-> "none", path |-> << >>, out |-> << >>, fmt |-> "", pattern |-> << >>,
     root |-> NoRoot, phase |-> "", text |-> << >>, raw |-> << >>]

NoScan == [todo |-> << >>, results |-> EmptyBag]

NoResult == [ok |-> FALSE, value |-> << >>]

Value(v) == [ok |-> TRUE, value |-> v]

NoError == [kind |-> "none", cause |-> "none"]

Raised(kind) == [kind |-> kind, cause |-> "none"]

Event(ev, path, roots, ok) == [ev |-> ev, path |-> path, roots |-> roots, ok |-> ok]

Diagnostic(msg, about) == [msg |-> msg, about |-> about]

\* The paths the calls of the model ask for.
ReqPaths ==
    {<<"tmp">>, <<"tmp", "sub">>, <<"tmp", "receipt.pdf">>, <<"tmp", "missing.pdf">>,
     <<"tmp", "sub", "inv.PDF">>, <<"tmp", "sub", "notes.txt">>,
     <<"etc">>, <<"etc", "passwd">>, <<"tmp", "lnk">>, <<"tmp", "lnk", "passwd">>,
     <<"tmp", "sub", "..", "receipt.pdf">>, <<"home", "user2">>,
     <<"home", "user", "..", "user2", "a.png">>, <<"home", "user", "doc.jpg">>,
     <<"home", "user", "box">>}

Formats == {"text", "markdown", "json", "xml"}

PatStarPdf == <<"*", ".", "p", "d", "f">>

PatInv == <<"i", "n", "v">>

PatClass == <<"i", "n", "[", "v", "]">>

PatAny == <<"*">>

PatQuestion == <<"?", ".", "p", "d", "f">>

PatStars == <<"b", "*", "*">>

Patterns == {PatStarPdf, PatInv, PatClass, PatAny, PatQuestion, PatStars}

RootArgs ==
    {NoRoot, EmptyRoot, RootArg(<<"tmp">>), RootArg(<<"tmp", "sub">>),
     RootArg(<<"tmp", "">>), RootArg(<<"etc">>)}

-----------------------------------------------------------------------------
(* The state machine *)

Init ==
    /\ disk \in Trees
    /\ clientRoots \in {CreateRoots(disk, paths) : paths \in RootLists}
    /\ pc = "idle"
    /\ call = NoCall
    /\ rootsResult = << >>
    /\ scan = NoScan
    /\ result = NoResult
    /\ error = NoError
    /\ trace = << >>
    /\ info = << >>

\* A tool is called: it runs up to its first roots query.
Start(c) ==
    /\ pc = "idle"
    /\ pc' = "query"
    /\ call' = c
    /\ trace' = <<Event("query", << >>, << >>, TRUE)>>
    /\ UNCHANGED <<disk, clientRoots, rootsResult, scan, result, error, info>>

\* The call ends with an error.
Raise(err, events) ==
    /\ pc' = "done"
    /\ error' = err
    /\ trace' = trace \o events
    /\ rootsResult' = << >>
    /\ result' = NoResult
    /\ UNCHANGED <<disk, clientRoots, call, scan>>

CallListRoots == Start([NoCall EXCEPT !.op = "list_roots"])

CallReadDirectory(path) ==
    Start([NoCall EXCEPT !.op = "read_directory", !.path = path, !.phase = "input"])

CallFindDocuments(pattern, root_path) ==
    Start([NoCall EXCEPT !.op = "find_documents", !.pattern = pattern, !.root = root_path])

CallConvertDocument(input_path, output_format) ==
    Start([NoCall EXCEPT !.op = "convert_document", !.path = input_path,
                         !.fmt = output_format, !.phase = "input"])

\* MCPClient._handle_list_roots: the client answers with its roots of now.
HandleListRoots ==
    /\ pc = "query"
    /\ pc' = "reply"
    /\ rootsResult' = clientRoots
    /\ trace' = Append(trace, Event("roots", << >>, clientRoots, TRUE))
    /\ UNCHANGED <<disk, clientRoots, call, scan, result, error, info>>

\* The roots query raises (the client answers with an error, the transport
\* fails): list_roots swallows it and returns [], is_path_allowed lets it
\* through to the caller of the tool.
RootsQueryFails ==
    /\ pc = "query"
    /\ IF call.op \in {"list_roots", "find_documents"}
       THEN /\ pc' = "reply"
            /\ rootsResult' = << >>
            /\ info' = Append(info, Diagnostic("Error listing roots", << >>))
            /\ trace' = Append(trace, Event("roots", << >>, << >>, FALSE))
            /\ UNCHANGED <<disk, clientRoots, call, scan, result, error>>
       ELSE /\ Raise(Raised("RootsQueryFailed"), <<Event("roots", << >>, << >>, FALSE)>>)
            /\ UNCHANGED info

\* The client's grant changes while the server is not running: between two
\* calls, or while a roots query waits for the client.  (A change after the
\* client has answered is a change before the next query: the server reads
\* the grant only through the answers.)
SetRootsFrom(lists) ==
    /\ pc \in {"idle", "query"}
    /\ \E paths \in lists :
          /\ CreateRoots(disk, paths) # clientRoots
          /\ clientRoots' = CreateRoots(disk, paths)
    /\ UNCHANGED <<disk, pc, call, rootsResult, scan, result, error, trace, info>>

SetRoots == SetRootsFrom(RootLists)

\* A slip: the roots of the call's first query are kept for its later checks.
RootsUsedCached ==
    IF Len(trace) > 2 /\ trace[2].ev = "roots" THEN trace[2].roots ELSE rootsResult

\* client_roots = roots_result.roots
RootsUsed == rootsResult

\* list_roots returns.
ListRootsReturn ==
    /\ pc = "reply"
    /\ call.op = "list_roots"
    /\ pc' = "done"
    /\ result' = Value(RootPaths(RootsUsed))
    /\ trace' = Append(trace, Event("list", << >>, RootsUsed, TRUE))
    /\ rootsResult' = << >>
    /\ UNCHANGED <<disk, clientRoots, call, scan, error, info>>

\* read_directory from the answer of the roots query to its end.
ReadDirectoryResume ==
    /\ pc = "reply"
    /\ call.op = "read_directory"
    /\ LET requested_path == Resolve(disk, call.path)
           allowed == IsPathAllowed(disk, RootsUsed, requested_path)
           checked == Event("authorize", call.path, RootsUsed, allowed)
       IN  IF ~allowed THEN Raise(Raised("AccessDenied"), <<checked>>) /\ UNCHANGED info
           ELSE IF ~IsDir(disk, requested_path)
                THEN Raise(Raised("NotADirectory"), <<checked>>) /\ UNCHANGED info
           ELSE \/ /\ pc' = "done"
                   /\ result' = Value(Listing(disk, requested_path))
                   /\ trace' = trace \o <<checked, Event("entries", call.path, << >>, TRUE)>>
                   /\ rootsResult' = << >>
                   /\ UNCHANGED <<disk, clientRoots, call, scan, error, info>>
                \* iterdir raises PermissionError
                \/ /\ Raise(Raised("PermissionDenied"),
                            <<checked, Event("entries", call.path, << >>, FALSE)>>)
                   /\ UNCHANGED info


\* if root_path: a string counts as given unless it is empty.
RootGiven(root_path) == root_path.kind = "path"

\* A slip: the argument is normalised as a path before it is compared.
IsGrantedRootNormalised(root_path, roots) == PurePath(root_path.str) \in Range(roots)

\* root_path in roots: the string is one of the strings list_roots returned.
IsGrantedRoot(root_path, roots) == root_path.str \in Range(roots)

\* A slip: the error of one root ends the loop.
RemainingAfterErrorAbort(todo) == << >>

\* What is left of search_paths when the turn for its first root ends in the
\* except clause: the loop goes on.
RemainingAfterError(todo) == Tail(todo)

\* find_documents from the answer of list_roots to the loop over the roots.
FindDocumentsStart ==
    /\ pc = "reply"
    /\ call.op = "find_documents"
    /\ LET roots == RootPaths(RootsUsed)
           listed == Event("list", << >>, RootsUsed, TRUE)
       IN  IF RootGiven(call.root) /\ ~IsGrantedRoot(call.root, roots)
           THEN Raise(Raised("InvalidRoot"), <<listed>>)
           ELSE /\ pc' = "scan"
                /\ scan' = [todo    |-> IF RootGiven(call.root)
                                        THEN <<PurePath(call.root.str)>>
                                        ELSE roots,
                            results |-> EmptyBag]
                /\ trace' = Append(trace, listed)
                /\ rootsResult' = << >>
                /\ UNCHANGED <<disk, clientRoots, call, result, error>>
    /\ UNCHANGED info

\* One turn of the loop over search_paths that runs to its end.
ScanRoot ==
    /\ pc = "scan"
    /\ scan.todo # << >>
    /\ LET root == Head(scan.todo)
       IN  IF GlobRaises(call.pattern)
           THEN /\ scan' = [scan EXCEPT !.todo = RemainingAfterError(@)]
                /\ info' = Append(info, Diagnostic("Error searching", root))
                /\ trace' = Append(trace, Event("scan", root, << >>, FALSE))
           ELSE /\ scan' = [todo    |-> Tail(scan.todo),
                            results |-> scan.results
                                        (+) SetToBag(RootHits(disk, root, call.pattern))]
                /\ trace' = Append(trace, Event("scan", root, << >>, TRUE))
                /\ UNCHANGED info
    /\ UNCHANGED <<disk, clientRoots, pc, call, rootsResult, result, error>>

\* One turn of the loop in which the enumeration raises (an OSError from the
\* walk or from stat) after some of the root's hits were appended.
ScanRootFails ==
    /\ pc = "scan"
    /\ scan.todo # << >>
    /\ ~GlobRaises(call.pattern)
    /\ LET root == Head(scan.todo)
       IN  /\ \E kept \in SUBSET RootHits(disk, root, call.pattern) :
                 scan' = [todo    |-> RemainingAfterError(scan.todo),
                          results |-> scan.results (+) SetToBag(kept)]
           /\ info' = Append(info, Diagnostic("Error searching", root))
           /\ trace' = Append(trace, Event("scan", root, << >>, FALSE))
    /\ UNCHANGED <<disk, clientRoots, pc, call, rootsResult, result, error>>

\* find_documents returns.
FindDocumentsReturn ==
    /\ pc = "scan"
    /\ scan.todo = << >>
    /\ pc' = "done"
    /\ result' = Value(scan.results)
    /\ UNCHANGED <<disk, clientRoots, call, rootsResult, scan, error, trace, info>>

\* convert_document: the security check.
ConvertAuthorize ==
    /\ pc = "reply"
    /\ call.op \in {"convert_document", "save_conversion"}
    /\ call.phase = "input"
    /\ LET input_file == Resolve(disk, call.path)
           allowed == IsPathAllowed(disk, RootsUsed, input_file)
           checked == Event("authorize", call.path, RootsUsed, allowed)
       IN  IF ~allowed THEN Raise(Raised("AccessDenied"), <<checked>>)
           ELSE /\ pc' = "validate"
                /\ trace' = Append(trace, checked)
                /\ rootsResult' = << >>
                /\ UNCHANGED <<disk, clientRoots, call, scan, result, error>>
    /\ UNCHANGED info

\* convert_document: the file and the output format.
ConvertValidate ==
    /\ pc = "validate"
    /\ LET input_file == Resolve(disk, call.path)
       IN  IF ~IsFile(disk, input_file)
           THEN Raise(Raised("NotAFile"), << >>) /\ UNCHANGED info
           ELSE IF call.fmt \notin Range(OUTPUT_FORMATS)
                THEN Raise(Raised("InvalidFormat"), << >>) /\ UNCHANGED info
           ELSE /\ pc' = "convert"
                /\ info' = Append(info, Diagnostic("Starting conversion", input_file))
                /\ trace' = Append(trace, Event("validate", call.path, << >>, TRUE))
                /\ UNCHANGED <<disk, clientRoots, call, rootsResult, scan, result, error>>

\* The error convert_document raises for an error of DocumentConverter.convert.
ConversionFailed(cause) == [kind |-> "ConversionFailed", cause |-> cause]

\* DocumentConverter.validate_input
ConverterValidateInput ==
    /\ pc = "convert"
    /\ LET input_file == Resolve(disk, call.path)
           failed(cause) ==
               /\ Raise(ConversionFailed(cause),
                        <<Event("validate_input", call.path, << >>, FALSE)>>)
               /\ info' = Append(info, Diagnostic("Failed to convert", input_file))
       IN  IF ~Exists(disk, input_file) THEN failed("InputNotFound")
           ELSE IF Extension(Chars(Last(input_file))) \notin Range(SUPPORTED_INPUT_FORMATS)
                THEN failed("UnsupportedFormat")
           ELSE /\ pc' = "extract"
                /\ trace' = Append(trace, Event("validate_input", call.path, << >>, TRUE))
                /\ UNCHANGED <<disk, clientRoots, call, rootsResult, scan, result, error, info>>

\* What extract_from_pdf or extract_from_image returns, as far as the tools
\* of filesystem.py look at it.
RawData(input_file) ==
    [type     |-> IF LowerSeq(Suffix(Chars(Last(input_file)))) = <<".", "p", "d", "f">>
                  THEN "pdf" ELSE "image",
     filename |-> Last(input_file)]

\* The string format_as_text, format_as_markdown or format_as_json returns.
Rendered(raw_data, output_format) == [format |-> output_format, data |-> raw_data]

\* DocumentConverter.convert: the extraction succeeds; its last step is the
\* parse of the extracted text.
ConverterExtract ==
    /\ pc = "extract"
    /\ pc' = "render"
    /\ trace' = trace \o <<Event("extract", call.path, << >>, TRUE),
                            Event("parse", call.path, << >>, TRUE)>>
    /\ UNCHANGED <<disk, clientRoots, call, rootsResult, scan, result, error, info>>

\* A slip: a failed extraction is rendered as an empty document.
ExtractFailsFallback ==
    /\ pc = "extract"
    /\ pc' = "render"
    /\ trace' = Append(trace, Event("extract", call.path, << >>, FALSE))
    /\ UNCHANGED <<disk, clientRoots, call, rootsResult, scan, result, error, info>>

\* DocumentConverter.convert: pdfplumber, PIL, cv2 or pytesseract raises.
ExtractFails ==
    /\ pc = "extract"
    /\ Raise(ConversionFailed("ExtractionFailure"),
             <<Event("extract", call.path, << >>, FALSE)>>)
    /\ info' = Append(info, Diagnostic("Failed to convert", Resolve(disk, call.path)))

\* DocumentConverter.convert: the rendering, and convert_document's return.
ConverterRender ==
    /\ pc = "render"
    /\ LET input_file == Resolve(disk, call.path)
       IN  IF call.fmt \notin Range(OUTPUT_FORMATS)
           THEN /\ Raise(ConversionFailed("UnsupportedOutputFormat"),
                         <<Event("render", call.path, << >>, FALSE)>>)
                /\ info' = Append(info, Diagnostic("Failed to convert", input_file))
           ELSE /\ pc' = IF call.op = "save_conversion" THEN "write" ELSE "done"
                /\ result' = Value(Rendered(RawData(input_file), call.fmt))
                /\ trace' = Append(trace, Event("render", call.path, << >>, TRUE))
                /\ info' = Append(info, Diagnostic("Successfully converted", input_file))
                /\ UNCHANGED <<disk, clientRoots, call, rootsResult, scan, error>>

\* A slip in save_conversion: the conversion is not held back by the check
\* of the output path.
CallSaveConversionUnchecked(input_path, output_path, output_format) ==
    Start([NoCall EXCEPT !.op = "save_conversion", !.path = input_path,
                         !.out = output_path, !.fmt = output_format,
                         !.phase = "input"])

CallSaveConversion(input_path, output_path, output_format) ==
    Start([NoCall EXCEPT !.op = "save_conversion", !.path = input_path,
                         !.out = output_path, !.fmt = output_format,
                         !.phase = "output"])

\* save_conversion: the check of the output path, then the call of
\* convert_document up to its roots query.
SaveAuthorizeOutput ==
    /\ pc = "reply"
    /\ call.op = "save_conversion"
    /\ call.phase = "output"
    /\ LET output_file == Resolve(disk, call.out)
           allowed == IsPathAllowed(disk, RootsUsed, Parent(output_file))
           checked == Event("authorize_output", call.out, RootsUsed, allowed)
       IN  IF ~allowed THEN Raise(Raised("AccessDenied"), <<checked>>)
           ELSE /\ pc' = "query"
                /\ call' = [call EXCEPT !.phase = "input"]
                /\ trace' = trace \o <<checked, Event("query", << >>, << >>, TRUE)>>
                /\ rootsResult' = << >>
                /\ UNCHANGED <<disk, clientRoots, scan, result, error>>
    /\ UNCHANGED info

\* The length of a rendering: the model keeps no characters of it.
RenderedSize(text) == Len(text.data.filename)

\* output_file.write_text can succeed: the path is no directory and its
\* parent is one.
Writable(d, output_file) ==
    /\ Kind(d, output_file) \in {"none", "file"}
    /\ IsDir(d, Parent(output_file))

\* A slip: a file that exists is left as it is.
WriteTextNew(d, output_file, text) ==
    IF output_file \in DOMAIN d THEN d
    ELSE [p \in DOMAIN d \cup {output_file} |->
             IF p = output_file
             THEN [kind |-> "file", size |-> Len(text.data.filename), text |-> text]
             ELSE d[p]]

\* The tree after output_file.write_text(text, encoding='utf-8').
WriteText(d, output_file, text) ==
    [p \in DOMAIN d \cup {output_file} |->
        IF p = output_file
        THEN [kind |-> "file", size |-> RenderedSize(text), text |-> text]
        ELSE d[p]]

\* save_conversion: the file is written.
SaveWrite ==
    /\ pc = "write"
    /\ LET output_file == Resolve(disk, call.out)
       IN  IF ~Writable(disk, output_file)
           THEN /\ Raise(Raised("WriteFailure"), <<Event("write", call.out, << >>, FALSE)>>)
                /\ UNCHANGED info
           ELSE /\ pc' = "done"
                /\ disk' = WriteText(disk, output_file, result.value)
                /\ result' = Value(<<"Successfully converted and saved to", output_file>>)
                /\ trace' = Append(trace, Event("write", call.out, << >>, TRUE))
                /\ info' = Append(info, Diagnostic("Saved conversion", output_file))
                /\ UNCHANGED <<clientRoots, call, rootsResult, scan, error>>

\* save_conversion: write_text raises although the path could be written
\* (the disk is full, the directory is read-only).
SaveWriteFails ==
    /\ pc = "write"
    /\ Writable(disk, Resolve(disk, call.out))
    /\ Raise(Raised("WriteFailure"), <<Event("write", call.out, << >>, FALSE)>>)
    /\ UNCHANGED info

\* The caller has its answer: the server is free for the next call.
Return ==
    /\ pc = "done"
    /\ pc' = "idle"
    /\ call' = NoCall
    /\ scan' = NoScan
    /\ result' = NoResult
    /\ error' = NoError
    /\ trace' = << >>
    /\ info' = << >>
    /\ UNCHANGED <<disk, clientRoots, rootsResult>>

Next ==
    \/ CallListRoots
    \/ \E path \in ReqPaths : CallReadDirectory(path)
    \/ \E pattern \in Patterns, root_path \in RootArgs : CallFindDocuments(pattern, root_path)
    \/ \E input_path \in ReqPaths, output_format \in Formats :
          CallConvertDocument(input_path, output_format)
    \/ HandleListRoots
    \/ RootsQueryFails
    \/ SetRoots
    \/ ListRootsReturn
    \/ ReadDirectoryResume
    \/ FindDocumentsStart
    \/ ScanRoot
    \/ ScanRootFails
    \/ FindDocumentsReturn
    \/ ConvertAuthorize
    \/ ConvertValidate
    \/ ConverterValidateInput
    \/ ConverterExtract
    \/ ExtractFails
    \/ ConverterRender
    \/ Return

Spec == Init /\ [][Next]_vars

-----------------------------------------------------------------------------
(* Every tool, save_conversion too, which changes the tree *)

SaveInputs ==
    {<<"tmp", "receipt.pdf">>, <<"tmp", "missing.pdf">>, <<"etc", "passwd">>}

SaveFormats == {"markdown", "JSON"}

SaveOutputs ==
    {<<"tmp", "out.md">>, <<"etc", "out.md">>, <<"tmp", "missing.pdf", "out.md">>,
     <<"tmp", "x.pdf">>, <<"tmp", "sub", "notes.txt">>}

\* The roots granted there: those that bear on the paths of the requests.
RootCandsAll == {<<"tmp">>, <<"tmp", "sub">>}

RootListsAll == SeqsUpTo(RootCandsAll, MaxRoots)

InitAll ==
    /\ Init
    /\ disk = BaseTree
    /\ clientRoots \in {CreateRoots(disk, paths) : paths \in RootListsAll}

SetRootsAll == SetRootsFrom(RootListsAll)

\* The requests of the other tools that go with those of save_conversion.
ReadPathsAll == {<<"tmp">>, <<"tmp", "sub">>}

FindRootsAll == {NoRoot, RootArg(<<"tmp">>)}

NextAll ==
    \/ CallListRoots
    \/ \E path \in ReadPathsAll : CallReadDirectory(path)
    \/ \E root_path \in FindRootsAll : CallFindDocuments(PatStarPdf, root_path)
    \/ \E input_path \in SaveInputs, output_format \in SaveFormats :
          CallConvertDocument(input_path, output_format)
    \/ \E input_path \in SaveInputs, output_path \in SaveOutputs, output_format \in SaveFormats :
          CallSaveConversion(input_path, output_path, output_format)
    \/ HandleListRoots
    \/ RootsQueryFails
    \/ SetRootsAll
    \/ ListRootsReturn
    \/ ReadDirectoryResume
    \/ FindDocumentsStart
    \/ ScanRoot
    \/ ScanRootFails
    \/ FindDocumentsReturn
    \/ ConvertAuthorize
    \/ ConvertValidate
    \/ ConverterValidateInput
    \/ ConverterExtract
    \/ ExtractFails
    \/ ConverterRender
    \/ SaveAuthorizeOutput
    \/ SaveWrite
    \/ SaveWriteFails
    \/ Return

SpecAll == InitAll /\ [][NextAll]_vars

-----------------------------------------------------------------------------
(* DocumentConverter: parse_receipt_data on the characters of a text *)

NL == "\n"

\* \s
IsSpace(c) == c \in {" ", "\t", NL}

\* \d
IsDigit(c) == c \in {"0", "1", "2", "3", "4", "5", "6", "7", "8", "9"}

Least(S) == CHOOSE x \in S : \A y \in S : x <= y

Greatest(S) == CHOOSE x \in S : \A y \in S : y <= x

\* The first position from p on that holds no white space, Len(text) + 1
\* if there is none: where a greedy \s* started at p ends.
SkipSpace(text, p) ==
    CHOOSE q \in p..(Len(text) + 1) :
       /\ \A r \in p..(q - 1) : IsSpace(text[r])
       /\ q = Len(text) + 1 \/ ~IsSpace(text[q])

\* The last position of the run of non-blank characters that starts at p.
EndOfToken(text, p) ==
    CHOOSE q \in p..Len(text) :
       /\ \A r \in p..q : ~IsSpace(text[r])
       /\ q = Len(text) \/ IsSpace(text[q + 1])

\* The last position of p's line.
EndOfLine(text, p) ==
    CHOOSE q \in p..Len(text) :
       /\ \A r \in (p + 1)..q : text[r] # NL
       /\ q = Len(text) \/ text[q + 1] = NL

\* str.strip()
Strip(s) ==
    LET keep == {i \in DOMAIN s : ~IsSpace(s[i])}
    IN  IF keep = {} THEN << >> ELSE SubSeq(s, Least(keep), Greatest(keep))

\* sub in s
IsIn(sub, s) ==
    \E k \in 0..Len(s) : k + Len(sub) <= Len(s) /\ SubSeq(s, k + 1, k + Len(sub)) = sub

\* text.split('\n')
Split(text) ==
    LET cuts == {0} \cup {i \in DOMAIN text : text[i] = NL} \cup {Len(text) + 1}
        cut(k) == CHOOSE x \in cuts : Cardinality({y \in cuts : y < x}) = k - 1
    IN  [k \in 1..(Cardinality(cuts) - 1) |-> SubSeq(text, cut(k) + 1, cut(k + 1) - 1)]

\* '\n'.join(lines)
RECURSIVE Join(_)
Join(lines) ==
    IF lines = << >> THEN << >>
    ELSE IF Len(lines) = 1 THEN lines[1]
    ELSE lines[1] \o <<NL>> \o Join(Tail(lines))

\* One regular expression of the table: the words of the label in lower
\* case (re.IGNORECASE), with \s* between them; the word after which \.? is
\* written (0: none); then \s*[:]\s* and the group, (\S+) or (.+?)(?:\n|$).
Pattern(words, dot, group) == [words |-> words, dot |-> dot, group |-> group]

\* patterns, in the order of the dict.
patterns ==
    <<
      [field |-> "receipt_no",
       pattern_list |->
          <<Pattern(<<<<"n", "o">>, <<"r", "e", "s", "i", "t">>>>, 1, "token"),
            Pattern(<<<<"r", "e", "c", "e", "i", "p", "t">>, <<"n", "o">>>>, 2, "token"),
            Pattern(<<<<"i", "n", "v", "o", "i", "c", "e">>, <<"n", "o">>>>, 2, "token")>>],
      [field |-> "datetime",
       pattern_list |->
          <<Pattern(<<<<"t", "a", "r", "i", "k", "h">>, <<"m", "a", "s", "a">>>>, 0, "line"),
            Pattern(<<<<"d", "a", "t", "e">>, <<"t", "i", "m", "e">>>>, 0, "line"),
            Pattern(<<<<"d", "a", "t", "e">>>>, 0, "line")>>],
      [field |-> "payment_date",
       pattern_list |->
          <<Pattern(<<<<"t", "a", "r", "i", "k", "h">>, <<"b", "a", "y", "a", "r", "a", "n">>>>, 0, "line"),
            Pattern(<<<<"p", "a", "y", "m", "e", "n", "t">>, <<"d", "a", "t", "e">>>>, 0, "line")>>],
      [field |-> "payment_type",
       pattern_list |->
          <<Pattern(<<<<"j", "e", "n", "i", "s">>, <<"b", "a", "y", "a", "r", "a", "n">>>>, 0, "line"),
            Pattern(<<<<"p", "a", "y", "m", "e", "n", "t">>, <<"t", "y", "p", "e">>>>, 0, "line")>>],
      [field |-> "company_code",
       pattern_list |->
          <<Pattern(<<<<"k", "o", "d">>, <<"m", "a", "j", "i", "k", "a", "n">>>>, 0, "token"),
            Pattern(<<<<"c", "o", "m", "p", "a", "n", "y">>, <<"c", "o", "d", "e">>>>, 0, "token"),
            Pattern(<<<<"e", "m", "p", "l", "o", "y", "e", "r">>, <<"c", "o", "d", "e">>>>, 0, "token")>>],
      [field |-> "company_name",
       pattern_list |->
          <<Pattern(<<<<"n", "a", "m", "a">>, <<"m", "a", "j", "i", "k", "a", "n">>>>, 0, "line"),
            Pattern(<<<<"c", "o", "m", "p", "a", "n", "y">>, <<"n", "a", "m", "e">>>>, 0, "line"),
            Pattern(<<<<"e", "m", "p", "l", "o", "y", "e", "r">>, <<"n", "a", "m", "e">>>>, 0, "line")>>],
      [field |-> "payment_method",
       pattern_list |->
          <<Pattern(<<<<"k", "a", "e", "d", "a", "h">>, <<"b", "a", "y", "a", "r", "a", "n">>>>, 0, "line"),
            Pattern(<<<<"p", "a", "y", "m", "e", "n", "t">>, <<"m", "e", "t", "h", "o", "d">>>>, 0, "line")>>],
      [field |-> "transaction_id",
       pattern_list |->
          <<Pattern(<<<<"f", "p", "x">>, <<"t", "r", "a", "n", "s", "a", "k", "s", "i">>, <<"i", "d">>>>, 0, "token"),
            Pattern(<<<<"t", "r", "a", "n", "s", "a", "c", "t", "i", "o", "n">>, <<"i", "d">>>>, 0, "token"),
            Pattern(<<<<"r", "e", "f", "e", "r", "e", "n", "c", "e">>, <<"n", "o">>>>, 2, "token")>>],
      [field |-> "bank",
       pattern_list |->
          <<Pattern(<<<<"b", "a", "n", "k">>>>, 0, "line")>>],
      [field |-> "total_amount",
       pattern_list |->
          <<Pattern(<<<<"j", "u", "m", "l", "a", "h">>, <<"b", "a", "y", "a", "r", "a", "n">>>>, 0, "line"),
            Pattern(<<<<"t", "o", "t", "a", "l">>, <<"a", "m", "o", "u", "n", "t">>>>, 0, "line"),
            Pattern(<<<<"t", "o", "t", "a", "l">>>>, 0, "line")>>],
      [field |-> "notes",
       pattern_list |->
          <<Pattern(<<<<"c", "a", "t", "a", "t", "a", "n">>>>, 0, "line"),
            Pattern(<<<<"n", "o", "t", "e", "s">>>>, 0, "line"),
            Pattern(<<<<"r", "e", "m", "a", "r", "k", "s">>>>, 0, "line")>>]>>

NoMatch == [found |-> FALSE, group |-> << >>]

Match(group) == [found |-> TRUE, group |-> group]

\* The word is at p, whatever the case of the letters.
HasWordAt(text, p, word) ==
    /\ p + Len(word) - 1 <= Len(text)
    /\ \A k \in DOMAIN word : Lower(text[p + k - 1]) = word[k]

\* The position after the colon when the words of the pattern from the
\* k-th on, and the colon, are at p; 0 when they are not.
RECURSIVE LabelFrom(_, _, _, _)
LabelFrom(text, p, pattern, k) ==
    IF k > Len(pattern.words)
    THEN IF p <= Len(text) /\ text[p] = ":" THEN p + 1 ELSE 0
    ELSE IF ~HasWordAt(text, p, pattern.words[k]) THEN 0
    ELSE LET p1 == p + Len(pattern.words[k])
             p2 == IF pattern.dot = k /\ p1 <= Len(text) /\ text[p1] = "."
                   THEN p1 + 1 ELSE p1
         IN  LabelFrom(text, SkipSpace(text, p2), pattern, k + 1)

\* \s* and the group from position c on.  (\S+) takes the run of
\* non-blank characters after the white space.  (.+?)(?:\n|$) takes the
\* line that starts after the white space; when the white space runs to the
\* end of the text, \s* gives characters back until the group can take one
\* that is no line break.
Group(text, c, group) ==
    LET p == SkipSpace(text, c)
    IN  IF group = "token"
        THEN IF p > Len(text) THEN NoMatch
             ELSE Match(SubSeq(text, p, EndOfToken(text, p)))
        ELSE IF p <= Len(text) THEN Match(SubSeq(text, p, EndOfLine(text, p)))
        ELSE LET back == {r \in c..Len(text) : text[r] # NL}
             IN  IF back = {} THEN NoMatch ELSE Match(<<text[Greatest(back)]>>)

\* The pattern matches from position i.
MatchAt(text, i, pattern) ==
    LET c == LabelFrom(text, i, pattern, 1)
    IN  IF c = 0 THEN NoMatch ELSE Group(text, c, pattern.group)

\* re.search(pattern, full_text, re.IGNORECASE | re.MULTILINE)
Search(text, pattern) ==
    LET at == {i \in DOMAIN text : MatchAt(text, i, pattern).found}
    IN  IF at = {} THEN NoMatch ELSE MatchAt(text, Least(at), pattern)

\* Where the leftmost match of the pattern starts.
MatchStart(text, pattern) ==
    Least({i \in DOMAIN text : MatchAt(text, i, pattern).found})

\* A slip: the pattern that matches leftmost in the text decides the field.
FirstMatchLeftmost(text, pattern_list) ==
    LET hits == {k \in DOMAIN pattern_list : Search(text, pattern_list[k]).found}
        left == CHOOSE k \in hits :
                   \A j \in hits : MatchStart(text, pattern_list[k])
                                      <= MatchStart(text, pattern_list[j])
    IN  IF hits = {} THEN NoMatch ELSE Search(text, pattern_list[left])

\* The first pattern of the list that matches decides the field.
FirstMatch(text, pattern_list) ==
    LET hits == {k \in DOMAIN pattern_list : Search(text, pattern_list[k]).found}
    IN  IF hits = {} THEN NoMatch ELSE Search(text, pattern_list[Least(hits)])

\* re.match(r"(\d+)\.\s*(.+)", line): the digits at the start of the line,
\* the dot, and the rest of the line, which must have a character.
ItemMatch(line) ==
    LET q == CHOOSE n \in 0..Len(line) :
                /\ \A r \in 1..n : IsDigit(line[r])
                /\ n = Len(line) \/ ~IsDigit(line[n + 1])
    IN  IF q = 0 \/ q = Len(line) \/ line[q + 1] # "." \/ q + 1 = Len(line)
        THEN [found |-> FALSE, number |-> << >>, description |-> << >>]
        ELSE [found       |-> TRUE,
              number      |-> SubSeq(line, 1, q),
              description |-> Strip(SubSeq(line, q + 2, Len(line)))]

\* payment_items
PaymentItems(lines) ==
    LET found == SelectSeq([k \in DOMAIN lines |-> ItemMatch(lines[k])],
                           LAMBDA m : m.found)
    IN  [k \in DOMAIN found |->
            [number |-> found[k].number, description |-> found[k].description]]

PERKESO == <<"P", "E", "R", "K", "E", "S", "O">>

RESIT_RASMI == <<"R", "E", "S", "I", "T", " ", "R", "A", "S", "M", "I">>

\* An entry of the dict data.
Item(key, value) == [key |-> key, value |-> value]

\* The dict parse_receipt_data returns, as its items in their order.
parse_receipt_data(text) ==
    LET lines     == Split(text)
        full_text == Join(lines)
        searched  == [k \in DOMAIN patterns |->
                        [key |-> patterns[k].field,
                         m   |-> FirstMatch(full_text, patterns[k].pattern_list)]]
        matched   == SelectSeq(searched, LAMBDA e : e.m.found)
        payment_items == PaymentItems(lines)
    IN  [k \in DOMAIN matched |-> Item(matched[k].key, Strip(matched[k].m.group))]
        \o (IF payment_items # << >> THEN <<Item("payment_items", payment_items)>> ELSE << >>)
        \o (IF IsIn(PERKESO, full_text) THEN <<Item("organization", PERKESO)>> ELSE << >>)
        \o (IF IsIn(RESIT_RASMI, full_text) THEN <<Item("document_type", RESIT_RASMI)>>
            ELSE << >>)

\* key in data
HasKey(data, key) == \E k \in DOMAIN data : data[k].key = key

\* data[key]
Get(data, key) == data[CHOOSE k \in DOMAIN data : data[k].key = key].value

\* data.get(key) is true as a condition: there, and not empty.
Truthy(data, key) == HasKey(data, key) /\ Get(data, key) # << >>

-----------------------------------------------------------------------------
(* DocumentConverter: clean_text *)

\* The characters at the positions that pass the test, in their order.
KeepWhere(text, Test(_)) ==
    LET kept == SelectSeq([i \in DOMAIN text |-> i], Test)
    IN  [k \in DOMAIN kept |-> text[kept[k]]]

\* re.sub(r'\s+', ' ', text): a run of white space becomes one blank.
CollapseSpace(text) ==
    LET blanked == [i \in DOMAIN text |-> IF IsSpace(text[i]) THEN " " ELSE text[i]]
    IN  KeepWhere(blanked, LAMBDA i : ~IsSpace(text[i]) \/ i = 1 \/ ~IsSpace(text[i - 1]))

\* text.replace(' ' + c, c), on a text without two blanks in a row.
DropBlankBefore(text, c) ==
    KeepWhere(text, LAMBDA i : ~(text[i] = " " /\ i < Len(text) /\ text[i + 1] = c))

\* re.sub(r'([:\.])\s+', r'\1\n', text): the white space after a colon or
\* a full stop becomes one line break.
BreakAfterMarks(text) ==
    LET \* position i is in a run of white space that follows a mark
        marked(i) == /\ IsSpace(text[i])
                     /\ \E j \in 1..(i - 1) : /\ text[j] \in {":", "."}
                                              /\ \A k \in (j + 1)..i : IsSpace(text[k])
        broken == [i \in DOMAIN text |-> IF marked(i) THEN NL ELSE text[i]]
    IN  KeepWhere(broken, LAMBDA i : ~marked(i) \/ ~IsSpace(text[i - 1]))

clean_text(text) ==
    Strip(BreakAfterMarks(DropBlankBefore(DropBlankBefore(CollapseSpace(text), ":"), ",")))

-----------------------------------------------------------------------------
(* DocumentConverter: format_as_markdown *)

\* str(n) for a number of one digit or more.
RECURSIVE Str(_)
Str(n) ==
    LET digit == <<"0", "1", "2", "3", "4", "5", "6", "7", "8", "9">>[(n % 10) + 1]
    IN  IF n < 10 THEN <<digit>> ELSE Str(n \div 10) \o <<digit>>

\* data.get(key, default) on the dict the extraction returns.
GetOr(data, key, default) == IF key \in DOMAIN data THEN data[key] ELSE default

\* field_mappings of format_as_text: the fixed list of the fields a
\* rendering shows, label and key.
TextFieldMappings ==
    <<<<<<"T", "a", "r", "i", "k", "h", " ", "M", "a", "s", "a">>, "datetime">>,
      <<<<"T", "a", "r", "i", "k", "h", " ", "B", "a", "y", "a", "r", "a", "n">>, "payment_date">>,
      <<<<"J", "e", "n", "i", "s", " ", "B", "a", "y", "a", "r", "a", "n">>, "payment_type">>,
      <<<<"K", "o", "d", " ", "M", "a", "j", "i", "k", "a", "n">>, "company_code">>,
      <<<<"N", "a", "m", "a", " ", "M", "a", "j", "i", "k", "a", "n">>, "company_name">>,
      <<<<"K", "a", "e", "d", "a", "h", " ", "B", "a", "y", "a", "r", "a", "n">>, "payment_method">>,
      <<<<"F", "P", "X", " ", "T", "r", "a", "n", "s", "a", "k", "s", "i", " ", "I", "D">>, "transaction_id">>,
      <<<<"B", "a", "n", "k">>, "bank">>,
      <<<<"J", "u", "m", "l", "a", "h", " ", "B", "a", "y", "a", "r", "a", "n">>, "total_amount">>,
      <<<<"C", "a", "t", "a", "t", "a", "n">>, "notes">>>>

\* field_mappings of format_as_markdown: label and key.
MarkdownFieldMappings ==
    <<<<<<"T", "a", "r", "i", "k", "h", " ", "M", "a", "s", "a">>, "datetime">>,
      <<<<"T", "a", "r", "i", "k", "h", " ", "B", "a", "y", "a", "r", "a", "n">>, "payment_date">>,
      <<<<"K", "o", "d", " ", "M", "a", "j", "i", "k", "a", "n">>, "company_code">>,
      <<<<"N", "a", "m", "a", " ", "M", "a", "j", "i", "k", "a", "n">>, "company_name">>,
      <<<<"K", "a", "e", "d", "a", "h", " ", "B", "a", "y", "a", "r", "a", "n">>, "payment_method">>,
      <<<<"F", "P", "X", " ", "T", "r", "a", "n", "s", "a", "k", "s", "i", " ", "I", "D">>, "transaction_id">>,
      <<<<"B", "a", "n", "k">>, "bank">>,
      <<<<"J", "u", "m", "l", "a", "h", " ", "B", "a", "y", "a", "r", "a", "n">>, "total_amount">>,
      <<<<"C", "a", "t", "a", "t", "a", "n">>, "notes">>>>

\* The grave accent, which a string here cannot hold: one character of the
\* output.
GraveAccent == "grave"

Fence == <<GraveAccent, GraveAccent, GraveAccent>>

\* f"| **{label}** | {value} |"
MarkdownRow(label, value) ==
    <<"|", " ", "*", "*">> \o label \o <<"*", "*", " ", "|", " ">> \o value \o <<" ", "|">>

\* f"{item['number']}. {item['description']}"
ItemLine(item) == item.number \o <<".", " ">> \o item.description

\* The lines of a page in the fallback of a pdf.
PageLines(page) ==
    <<<<"#", "#", " ", "P", "a", "g", "e", " ">> \o Str(page.page), << >>, Fence, page.text,
      Fence, << >>>>

RECURSIVE Flatten(_)
Flatten(lists) == IF lists = << >> THEN << >> ELSE lists[1] \o Flatten(Tail(lists))

\* The list output of format_as_markdown before the join.
MarkdownLines(data) ==
    LET parsed == GetOr(data, "parsed", << >>)
        head(key, prefix) ==
            IF Truthy(parsed, key) THEN <<prefix \o Get(parsed, key), << >>>> ELSE << >>
        mapped == SelectSeq(MarkdownFieldMappings, LAMBDA m : HasKey(parsed, m[2]))
        rows   == [k \in DOMAIN mapped |-> MarkdownRow(mapped[k][1], Get(parsed, mapped[k][2]))]
        items  == IF HasKey(parsed, "payment_items")
                  THEN LET payment_items == Get(parsed, "payment_items")
                       IN  <<<< >>,
                             <<"#", "#", "#", " ", "J", "e", "n", "i", "s", " ",
                               "B", "a", "y", "a", "r", "a", "n">>,
                             << >>>>
                           \o [k \in DOMAIN payment_items |-> ItemLine(payment_items[k])]
                  ELSE << >>
        pages  == GetOr(data, "pages", << >>)
    IN  (IF parsed # << >>
         THEN head("document_type", <<"#", " ">>)
              \o head("receipt_no",
                      <<"*", "*", "N", "o", ".", " ", "R", "e", "s", "i", "t", ":", "*", "*", " ">>)
              \o head("organization", <<"#", "#", " ">>)
              \o <<<<"|", " ", "F", "i", "e", "l", "d", " ", "|", " ", "V", "a", "l", "u", "e", " ", "|">>,
                    <<"|", "-", "-", "-", "-", "-", "-", "-", "|", "-", "-", "-", "-", "-", "-", "-", "|">>>>
              \o rows
              \o items
         ELSE <<<<"#", " ", "D", "o", "c", "u", "m", "e", "n", "t", " ",
                   "C", "o", "n", "t", "e", "n", "t">>,
                 << >>>>
              \o (IF data.type = "pdf"
                  THEN Flatten([k \in DOMAIN pages |-> PageLines(pages[k])])
                  ELSE <<Fence, GetOr(data, "raw_text", << >>), Fence>>))
        \o <<<< >>, <<"-", "-", "-">>,
             <<"*", "G", "e", "n", "e", "r", "a", "t", "e", "d", " ", "f", "r", "o", "m", ":", " ">>
                \o GetOr(data, "filename", <<"u", "n", "k", "n", "o", "w", "n">>) \o <<"*">>>>

\* "\n".join(output)
format_as_markdown(data) == Join(MarkdownLines(data))

-----------------------------------------------------------------------------
(* DocumentConverter: format_as_text *)

\* f"{label:<20}"
PadTo20(label) ==
    label \o [k \in 1..(IF Len(label) < 20 THEN 20 - Len(label) ELSE 0) |-> " "]

\* f"{label:<20} :     {value}"
TextRow(label, value) == PadTo20(label) \o <<" ", ":", " ", " ", " ", " ", " ">> \o value

\* f"     No. Resit : {parsed['receipt_no']}"
HeaderReceiptNo(receipt_no) ==
    <<" ", " ", " ", " ", " ", "N", "o", ".", " ", "R", "e", "s", "i", "t", " ", ":", " ">> \o receipt_no

\* The marker of the footer note.
FooterMarker ==
    <<"R", "e", "s", "i", "t", " ", "i", "n", "i", " ", "a", "d", "a", "l", "a", "h", " ", "c",
      "e", "t", "a", "k", "a", "n", " ", "k", "o", "m", "p", "u", "t", "e", "r">>

\* The footer note.
FooterNote ==
    <<"\"", "R", "e", "s", "i", "t", " ", "i", "n", "i", " ", "a", "d", "a", "l", "a", "h", " ",
      "c", "e", "t", "a", "k", "a", "n", " ", "k", "o", "m", "p", "u", "t", "e", "r", " ", "d",
      "a", "n", " ", "t", "a", "n", "d", "a", "t", "a", "n", "g", "a", "n", " ", "t", "i", "d",
      "a", "k", " ", "d", "i", "p", "e", "r", "l", "u", "k", "a", "n", ".", "\"">>

\* The lines of a page in the fallback of a pdf.
TextPageLines(page) == <<<<"P", "a", "g", "e", " ">> \o Str(page.page) \o <<":">>, page.text, << >>>>

\* The list output of format_as_text before the join.
TextLines(data) ==
    LET parsed == GetOr(data, "parsed", << >>)
        header == IF Truthy(parsed, "document_type")
                  THEN <<Get(parsed, "document_type")
                           \o (IF Truthy(parsed, "receipt_no")
                               THEN HeaderReceiptNo(Get(parsed, "receipt_no")) ELSE << >>),
                         << >>>>
                  ELSE << >>
        organization == IF Truthy(parsed, "organization")
                        THEN <<Get(parsed, "organization"), << >>>> ELSE << >>
        mapped == SelectSeq(TextFieldMappings, LAMBDA m : HasKey(parsed, m[2]))
        rows   == [k \in DOMAIN mapped |-> TextRow(mapped[k][1], Get(parsed, mapped[k][2]))]
        items  == IF HasKey(parsed, "payment_items")
                  THEN LET payment_items == Get(parsed, "payment_items")
                       IN  <<<< >>>> \o [k \in DOMAIN payment_items |-> ItemLine(payment_items[k])]
                  ELSE << >>
        pages  == GetOr(data, "pages", << >>)
    IN  (IF parsed # << >>
         THEN header \o organization \o rows \o items
         ELSE IF data.type = "pdf"
              THEN Flatten([k \in DOMAIN pages |-> TextPageLines(pages[k])])
              ELSE <<GetOr(data, "raw_text", << >>)>>)
        \o (IF IsIn(FooterMarker, GetOr(data, "raw_text", << >>))
            THEN <<<< >>, FooterNote>> ELSE << >>)

\* "\n".join(output)
format_as_text(data) == Join(TextLines(data))

-----------------------------------------------------------------------------
(* DocumentConverter: format_as_json *)

\* The values json.dumps writes: strings, numbers, None, lists and dicts,
\* a dict as its items in their order.
JStr(s) == [t |-> "str", v |-> s]

JNum(n) == [t |-> "num", v |-> n]

JNull == [t |-> "null", v |-> << >>]

JList(vs) == [t |-> "list", v |-> vs]

JObj(items) == [t |-> "obj", v |-> items]

\* The characters of a key of the record or of a source kind.
NameChars(name) ==
    CASE name = "receipt_no" -> <<"r", "e", "c", "e", "i", "p", "t", "_", "n", "o">>
      [] name = "datetime" -> <<"d", "a", "t", "e", "t", "i", "m", "e">>
      [] name = "payment_date" -> <<"p", "a", "y", "m", "e", "n", "t", "_", "d", "a", "t", "e">>
      [] name = "payment_type" -> <<"p", "a", "y", "m", "e", "n", "t", "_", "t", "y", "p", "e">>
      [] name = "company_code" -> <<"c", "o", "m", "p", "a", "n", "y", "_", "c", "o", "d", "e">>
      [] name = "company_name" -> <<"c", "o", "m", "p", "a", "n", "y", "_", "n", "a", "m", "e">>
      [] name = "payment_method" -> <<"p", "a", "y", "m", "e", "n", "t", "_", "m", "e", "t", "h", "o", "d">>
      [] name = "transaction_id" -> <<"t", "r", "a", "n", "s", "a", "c", "t", "i", "o", "n", "_", "i", "d">>
      [] name = "bank" -> <<"b", "a", "n", "k">>
      [] name = "total_amount" -> <<"t", "o", "t", "a", "l", "_", "a", "m", "o", "u", "n", "t">>
      [] name = "notes" -> <<"n", "o", "t", "e", "s">>
      [] name = "payment_items" -> <<"p", "a", "y", "m", "e", "n", "t", "_", "i", "t", "e", "m", "s">>
      [] name = "organization" -> <<"o", "r", "g", "a", "n", "i", "z", "a", "t", "i", "o", "n">>
      [] name = "document_type" -> <<"d", "o", "c", "u", "m", "e", "n", "t", "_", "t", "y", "p", "e">>
      [] name = "pdf" -> <<"p", "d", "f">>
      [] name = "image" -> <<"i", "m", "a", "g", "e">>

\* The characters json.dumps writes for a string, ensure_ascii=False: the
\* quote, the backslash, the line break and the tab are escaped.
Escape(s) ==
    LET special(c) == c \in {"\"", "\\", NL, "\t"}
        esc(c) == CASE c = NL   -> "n"
                    [] c = "\t" -> "t"
                    [] OTHER    -> c
        two == [k \in 1..(2 * Len(s)) |->
                  IF k % 2 = 1
                  THEN (IF special(s[(k + 1) \div 2]) THEN "\\" ELSE "")
                  ELSE esc(s[k \div 2])]
    IN  SelectSeq(two, LAMBDA c : c # "")

Indent(level) == [k \in 1..(2 * level) |-> " "]

\* The parts with a comma and a line break between them.
RECURSIVE JoinComma(_)
JoinComma(parts) ==
    IF parts = << >> THEN << >>
    ELSE IF Len(parts) = 1 THEN parts[1]
    ELSE parts[1] \o <<",", NL>> \o JoinComma(Tail(parts))

\* json.dumps(v, indent=2, ensure_ascii=False), v nested level deep.
RECURSIVE Dumps(_, _)
Dumps(v, level) ==
    CASE v.t = "str"  -> <<"\"">> \o Escape(v.v) \o <<"\"">>
      [] v.t = "num"  -> Str(v.v)
      [] v.t = "null" -> <<"n", "u", "l", "l">>
      [] v.t = "list" ->
            IF v.v = << >> THEN <<"[", "]">>
            ELSE <<"[", NL>>
                 \o JoinComma([k \in DOMAIN v.v |->
                                 Indent(level + 1) \o Dumps(v.v[k], level + 1)])
                 \o <<NL>> \o Indent(level) \o <<"]">>
      [] v.t = "obj"  ->
            IF v.v = << >> THEN <<"{", "}">>
            ELSE <<"{", NL>>
                 \o JoinComma([k \in DOMAIN v.v |->
                                 Indent(level + 1) \o <<"\"">> \o Escape(v.v[k][1])
                                    \o <<"\"", ":", " ">> \o Dumps(v.v[k][2], level + 1)])
                 \o <<NL>> \o Indent(level) \o <<"}">>

\* The keys the output is written with.
K_pages == <<"p", "a", "g", "e", "s">>

K_charts == <<"c", "h", "a", "r", "t", "s">>

K_items == <<"i", "t", "e", "m", "s">>

K_page == <<"p", "a", "g", "e">>

K_text == <<"t", "e", "x", "t">>

K_md == <<"m", "d">>

K_images == <<"i", "m", "a", "g", "e", "s">>

K_tables == <<"t", "a", "b", "l", "e", "s">>

K_confidence == <<"c", "o", "n", "f", "i", "d", "e", "n", "c", "e">>

K_type == <<"t", "y", "p", "e">>

K_number == <<"n", "u", "m", "b", "e", "r">>

K_description == <<"d", "e", "s", "c", "r", "i", "p", "t", "i", "o", "n">>

K_key == <<"k", "e", "y">>

K_value == <<"v", "a", "l", "u", "e">>

K_lvl == <<"l", "v", "l">>

K_metadata == <<"m", "e", "t", "a", "d", "a", "t", "a">>

K_filename == <<"f", "i", "l", "e", "n", "a", "m", "e">>

K_processed_at == <<"p", "r", "o", "c", "e", "s", "s", "e", "d", "_", "a", "t">>

K_name == <<"n", "a", "m", "e">>

K_width == <<"w", "i", "d", "t", "h">>

K_height == <<"h", "e", "i", "g", "h", "t">>

K_original_width == <<"o", "r", "i", "g", "i", "n", "a", "l", "_", "w", "i", "d", "t", "h">>

K_original_height == <<"o", "r", "i", "g", "i", "n", "a", "l", "_", "h", "e", "i", "g", "h", "t">>

K_payment_item == <<"p", "a", "y", "m", "e", "n", "t", "_", "i", "t", "e", "m">>

K_field == <<"f", "i", "e", "l", "d">>

\* page_data of a page of a pdf.
PdfPageData(page) ==
    JObj(<<<<K_page, JNum(page.page)>>, <<K_text, JStr(page.text)>>, <<K_md, JStr(<< >>)>>,
           <<K_images, JList(<< >>)>>>>
         \o (IF GetOr(page, "tables", << >>) # << >>
             THEN <<<<K_tables, JList(page.tables)>>>> ELSE << >>))

\* page_data of an image.
ImagePageData(data) ==
    JObj(<<<<K_page, JNum(1)>>,
           <<K_text, JStr(GetOr(data, "raw_text", << >>))>>,
           <<K_md, JStr(format_as_markdown(data))>>,
           <<K_images, JList(GetOr(data, "images", << >>))>>>>
         \o (IF "ocr_confidence" \in DOMAIN data
             THEN <<<<K_confidence, data.ocr_confidence>>>> ELSE << >>))

\* A slip: the payment items are not written.
JsonItemsFieldsOnly(item) ==
    IF item.key = "payment_items" THEN << >>
    ELSE <<JObj(<<<<K_type, JStr(K_field)>>,
                  <<K_key, JStr(NameChars(item.key))>>,
                  <<K_value, JStr(item.value)>>,
                  <<K_lvl, JNum(1)>>>>)>>

\* The entries of json_output["items"] an item of the record gives.
JsonItems(item) ==
    IF item.key = "payment_items"
    THEN [k \in DOMAIN item.value |->
            JObj(<<<<K_type, JStr(K_payment_item)>>,
                   <<K_number, JStr(item.value[k].number)>>,
                   <<K_description, JStr(item.value[k].description)>>>>)]
    ELSE <<JObj(<<<<K_type, JStr(K_field)>>,
                  <<K_key, JStr(NameChars(item.key))>>,
                  <<K_value, JStr(item.value)>>,
                  <<K_lvl, JNum(1)>>>>)>>

\* json_output
JsonOutput(data) ==
    LET pages  == GetOr(data, "pages", << >>)
        parsed == GetOr(data, "parsed", << >>)
    IN  JObj(<<<<K_pages,
                 JList(IF data.type = "pdf"
                       THEN [k \in DOMAIN pages |-> PdfPageData(pages[k])]
                       ELSE IF data.type = "image" THEN <<ImagePageData(data)>>
                       ELSE << >>)>>,
               <<K_charts, JList(<< >>)>>,
               <<K_items, JList(Flatten([k \in DOMAIN parsed |-> JsonItems(parsed[k])]))>>,
               <<K_metadata,
                 JObj(<<<<K_filename, JStr(GetOr(data, "filename", << >>))>>,
                        <<K_type, JStr(NameChars(data.type))>>,
                        <<K_processed_at, JNull>>>>)>>>>)

\* json.dumps(json_output, indent=2, ensure_ascii=False)
format_as_json(data) == Dumps(JsonOutput(data), 0)

-----------------------------------------------------------------------------
(* The parser and the renderer on their own, as test_document_converter.py
   calls them *)

\* The text of the receipt in test_basic_conversion.
Fixture ==
    <<"R", "E", "S", "I", "T", " ", "R", "A", "S", "M", "I", " ", " ", " ", " ", " ", "N", "o",
      ".", " ", "R", "e", "s", "i", "t", " ", ":", " ", "2", "0", "2", "5", "E", "0", "0", "0",
      "4", "3", "4", "3", "6", "7", "3", "\n", "\n", "P", "E", "R", "K", "E", "S", "O", "\n",
      "\n", "T", "a", "r", "i", "k", "h", " ", "M", "a", "s", "a", " ", " ", " ", " ", " ", " ",
      " ", " ", " ", " ", ":", " ", " ", " ", " ", " ", "0", "9", "/", "0", "9", "/", "2", "0",
      "2", "5", " ", "0", "9", ":", "0", "3", ":", "4", "8", " ", "P", "M", "\n", "T", "a", "r",
      "i", "k", "h", " ", "B", "a", "y", "a", "r", "a", "n", " ", " ", " ", " ", " ", " ", " ",
      ":", " ", " ", " ", " ", " ", "0", "9", "/", "0", "9", "/", "2", "0", "2", "5", "\n", "J",
      "e", "n", "i", "s", " ", "B", "a", "y", "a", "r", "a", "n", " ", " ", " ", " ", " ", " ",
      " ", " ", ":", " ", " ", " ", " ", " ", "1", ".", " ", "C", "a", "r", "u", "m", "a", "n",
      " ", "B", "u", "l", "a", "n", "a", "n", "(", "E", "C", "R", "0", "9", "2", "2", "5", "0",
      "1", "8", "2", "2", "2", "2", "-", "0", "8", "/", "2", "0", "2", "5", ")", "(", "R", "M",
      "2", "8", ".", "8", "0", ")", "\n", " ", " ", " ", " ", " ", " ", " ", " ", " ", " ", " ",
      " ", " ", " ", " ", " ", " ", " ", " ", " ", " ", " ", " ", " ", " ", " ", " ", "2", ".",
      " ", "T", "u", "n", "g", "g", "a", "k", "a", "n", " ", "C", "a", "r", "u", "m", "a", "n",
      "-", "\n", " ", " ", " ", " ", " ", " ", " ", " ", " ", " ", " ", " ", " ", " ", " ", " ",
      " ", " ", " ", " ", " ", " ", " ", " ", " ", " ", " ", "3", ".", " ", "K", "e", "k", "u",
      "r", "a", "n", "g", "a", "n", " ", "C", "a", "r", "u", "m", "a", "n", "-", "\n", "K", "o",
      "d", " ", "M", "a", "j", "i", "k", "a", "n", " ", " ", " ", " ", " ", " ", " ", " ", " ",
      " ", ":", " ", " ", " ", " ", " ", "B", "3", "9", "0", "1", "0", "0", "0", "9", "1", "3",
      "X", "\n", "N", "a", "m", "a", " ", "M", "a", "j", "i", "k", "a", "n", " ", " ", " ", " ",
      " ", " ", " ", " ", " ", ":", " ", " ", " ", " ", " ", "A", "S", "I", "A", "J", "A", "Y",
      "A", " ", "T", "I", "L", "I", "N", "G", " ", "C", "O", "N", "S", "T", "R", "U", "C", "T",
      "I", "O", "N", " ", "S", "D", "N", " ", "B", "H", "D", "\n", "K", "a", "e", "d", "a", "h",
      " ", "B", "a", "y", "a", "r", "a", "n", " ", " ", " ", " ", " ", " ", " ", ":", " ", " ",
      " ", " ", " ", "O", "n", "l", "i", "n", "e", " ", "P", "o", "r", "t", "a", "l", "\n", "F",
      "P", "X", " ", "T", "r", "a", "n", "s", "a", "k", "s", "i", " ", "I", "D", " ", " ", " ",
      " ", " ", ":", " ", " ", " ", " ", " ", "2", "5", "0", "9", "0", "9", "2", "1", "0", "3",
      "3", "7", "0", "6", "7", "\n", "B", "a", "n", "k", " ", " ", " ", " ", " ", " ", " ", " ",
      " ", " ", " ", " ", " ", " ", " ", " ", " ", ":", " ", " ", " ", " ", " ", "M", "a", "l",
      "a", "y", "a", "n", " ", "B", "a", "n", "k", "i", "n", "g", " ", "B", "e", "r", "h", "a",
      "d", " ", "(", "M", "2", "U", ")", "\n", "J", "u", "m", "l", "a", "h", " ", "B", "a", "y",
      "a", "r", "a", "n", " ", " ", " ", " ", " ", " ", " ", ":", " ", " ", " ", " ", " ", "R",
      "M", "2", "8", ".", "8", "0", "\n", "C", "a", "t", "a", "t", "a", "n", " ", " ", " ", " ",
      " ", " ", " ", " ", " ", " ", " ", " ", " ", " ", ":", " ", " ", " ", " ", " ", "C", "P",
      "_", "0", "9", "0", "9", "2", "5", "_", "0", "3", "2", "2", "8", "2", "\n", "\n", "\"",
      "R", "e", "s", "i", "t", " ", "i", "n", "i", " ", "a", "d", "a", "l", "a", "h", " ", "c",
      "e", "t", "a", "k", "a", "n", " ", "k", "o", "m", "p", "u", "t", "e", "r", " ", "d", "a",
      "n", " ", "t", "a", "n", "d", "a", "t", "a", "n", "g", "a", "n", " ", "t", "i", "d", "a",
      "k", " ", "d", "i", "p", "e", "r", "l", "u", "k", "a", "n", ".", "\"", "\n">>

TestFilename ==
    <<"t", "e", "s", "t", "_", "r", "e", "c", "e", "i", "p", "t", ".", "p", "n", "g">>

\* Pieces of receipts: a label and its value, a value on the line after
\* its label as clean_text leaves it, numbered lines.
PieceReceiptNo ==
    <<"N", "o", ".", " ", "R", "e", "s", "i", "t", " ", ":", " ", "2", "0", "2", "5", "E", "1">>

PieceTotal ==
    <<"J", "u", "m", "l", "a", "h", " ", "B", "a", "y", "a", "r", "a", "n", " ", ":", " ", "R",
      "M", "2", "8", ".", "8", "0">>

PieceTotalNextLine ==
    <<"J", "u", "m", "l", "a", "h", " ", "B", "a", "y", "a", "r", "a", "n", ":", "\n", "2", "8",
      ".", "8", "0">>

PieceItem ==
    <<"1", ".", " ", "C", "a", "r", "u", "m", "a", "n">>

PieceItemIndented ==
    <<" ", " ", "2", ".", " ", "T", "u", "n", "g", "g", "a", "k", "a", "n">>

PieceTransaction ==
    <<"F", "P", "X", " ", "T", "r", "a", "n", "s", "a", "k", "s", "i", " ", "I", "D", " ", ":",
      " ", "2", "5">>

PiecePaymentType ==
    <<"J", "e", "n", "i", "s", " ", "B", "a", "y", "a", "r", "a", "n", " ", ":", " ", "1", ".",
      " ", "C", "a", "r", "u", "m", "a", "n">>

PieceBankEmpty ==
    <<"B", "a", "n", "k", " ", ":">>

Pieces ==
    {PieceReceiptNo, PieceTotal, PieceTotalNextLine, PieceItem, PieceItemIndented,
     PieceTransaction, PiecePaymentType, PieceBankEmpty}

MaxPieces == 2

\* Texts with two labels of one field, the label of the later pattern first.
TextTwoReceiptLabels ==
    <<"R", "e", "c", "e", "i", "p", "t", " ", "N", "o", " ", ":", " ", "8", "\n", "N", "o", ".",
      " ", "R", "e", "s", "i", "t", " ", ":", " ", "9">>

TextTwoDateLabels ==
    <<"D", "a", "t", "e", " ", ":", " ", "5", "\n", "T", "a", "r", "i", "k", "h", " ", "M", "a",
      "s", "a", " ", ":", " ", "3">>

\* The texts the parser is given.
Texts ==
    {Fixture, TextTwoReceiptLabels, TextTwoDateLabels}
       \cup {Join(ps) : ps \in SeqsUpTo(Pieces, MaxPieces)}

\* The dict extract_from_pdf builds around a parse, and the one the test
\* builds.
DataOf(type, text, parsed) ==
    IF type = "pdf"
    THEN [pages    |-> <<[page |-> 1, text |-> text]>>,
          type     |-> "pdf",
          parsed   |-> parsed,
          filename |-> Chars("receipt.pdf")]
    ELSE [parsed |-> parsed, type |-> "image", filename |-> TestFilename]

\* The dicts the test gives to format_as_text and to format_as_json.
TestTextData(text, parsed) == [parsed |-> parsed, type |-> "image", raw_text |-> text]

TestJsonData(text, parsed) ==
    [parsed   |-> parsed,
     type     |-> "image",
     raw_text |-> text,
     filename |-> TestFilename,
     images   |-> <<JObj(<<<<K_name, JStr(TestFilename)>>, <<K_width, JNum(595)>>,
                           <<K_height, JNum(842)>>>>)>>]

\* What the calls of the model have answered so far.
Answers(parsed, data) ==
    [parsed |-> parsed, data |-> data, markdown |-> << >>, text |-> << >>, json |-> << >>]

InitParse ==
    /\ Init
    /\ disk = BaseTree
    /\ clientRoots = << >>

\* parsed = DocumentConverter.parse_receipt_data(text)
CallParseReceiptData(text) ==
    /\ pc = "idle"
    /\ pc' = "parsed"
    /\ call' = [NoCall EXCEPT !.op = "parse_receipt_data", !.text = text]
    /\ result' = Value(Answers(parse_receipt_data(text), << >>))
    /\ trace' = <<Event("parse", << >>, << >>, TRUE)>>
    /\ UNCHANGED <<disk, clientRoots, rootsResult, scan, error, info>>

\* A renderer is called and answers.
Format(op, type, data, output) ==
    /\ pc = "parsed"
    /\ pc' = "done"
    /\ call' = [call EXCEPT !.op = op, !.fmt = type]
    /\ result' = Value([output EXCEPT !.data = data])
    /\ trace' = Append(trace, Event("render", << >>, << >>, TRUE))
    /\ UNCHANGED <<disk, clientRoots, rootsResult, scan, error, info>>

\* markdown_output = DocumentConverter.format_as_markdown({...}) in the
\* test; cls.format_as_markdown(raw_data) in convert.
CallFormatAsMarkdown(type) ==
    /\ call.phase \in {"", type}
    /\ LET data == IF call.phase = "" THEN DataOf(type, call.text, result.value.parsed)
                   ELSE result.value.data
       IN  Format("format_as_markdown", type, data,
                  [result.value EXCEPT !.markdown = format_as_markdown(data)])

\* text_output = DocumentConverter.format_as_text({...}) in the test;
\* cls.format_as_text(raw_data) in convert.
CallFormatAsText ==
    /\ pc = "parsed"
    /\ LET data == IF call.phase = "" THEN TestTextData(call.text, result.value.parsed)
                   ELSE result.value.data
       IN  Format("format_as_text", data.type, data,
                  [result.value EXCEPT !.text = format_as_text(data)])

\* json_output = DocumentConverter.format_as_json({...}) in the test;
\* cls.format_as_json(raw_data) in convert.
CallFormatAsJson ==
    /\ pc = "parsed"
    /\ LET data == IF call.phase = "" THEN TestJsonData(call.text, result.value.parsed)
                   ELSE result.value.data
       IN  Format("format_as_json", data.type, data,
                  [result.value EXCEPT !.json = format_as_json(data)])

NextParse ==
    \/ \E text \in Texts : CallParseReceiptData(text)
    \/ \E type \in {"pdf", "image"} : CallFormatAsMarkdown(type)
    \/ CallFormatAsText
    \/ CallFormatAsJson
    \/ Return

SpecParse == InitParse /\ [][NextParse]_vars

-----------------------------------------------------------------------------
(* DocumentConverter.convert from the extracted text on: clean_text,
   parse_receipt_data and a renderer *)

\* What a page of a pdf or an image may read as, besides the texts above.
PageThanks ==
    <<"T", "e", "r", "i", "m", "a", " ", "k", "a", "s", "i", "h">>

PageBank ==
    <<"B", "a", "n", "k", " ", ":", " ", "M", "2", "U", "\n", "J", "u", "m", "l", "a", "h", " ",
      "B", "a", "y", "a", "r", "a", "n", " ", ":", " ", "R", "M", "2", "8", ".", "8", "0">>

PageItem ==
    <<"1", ".", "C", "a", "r", "u", "m", "a", "n", "\n", "2", ".", "T", "u", "n", "g", "g", "a",
      "k", "a", "n">>

PageFooter ==
    <<"B", "a", "n", "k", " ", ":", " ", "M", "2", "U", "\n", "\"", "R", "e", "s", "i", "t", " ",
      "i", "n", "i", " ", "a", "d", "a", "l", "a", "h", " ", "c", "e", "t", "a", "k", "a", "n",
      " ", "k", "o", "m", "p", "u", "t", "e", "r", " ", "d", "a", "n", " ", "t", "a", "n", "d",
      "a", "t", "a", "n", "g", "a", "n", " ", "t", "i", "d", "a", "k", " ", "d", "i", "p", "e",
      "r", "l", "u", "k", "a", "n", ".", "\"">>

PageTexts == {PageThanks, PageBank, PageItem, PageFooter}

MaxPages == 2

\* The pages of the pdfs, by their texts.
PdfTexts == SeqsUpTo(PageTexts, MaxPages) \ {<< >>}

\* What pytesseract reads from the images.
ImageTexts == Texts \cup PageTexts

\* extract_from_pdf: the pages, each with its cleaned text.
PdfPages(texts) ==
    [k \in DOMAIN texts |-> [page |-> k, text |-> clean_text(texts[k]), tables |-> << >>]]

\* extract_from_pdf, from page.extract_text() on.
ExtractFromPdf(texts) ==
    /\ pc = "idle"
    /\ pc' = "parsed"
    /\ LET pages     == PdfPages(texts)
           full_text == Join([k \in DOMAIN pages |-> pages[k].text])
           parsed    == parse_receipt_data(full_text)
       IN  /\ call' = [NoCall EXCEPT !.op = "extract_from_pdf", !.phase = "pdf",
                                     !.raw = texts, !.text = full_text]
           /\ result' = Value(Answers(parsed, [pages    |-> pages,
                                               type     |-> "pdf",
                                               parsed   |-> parsed,
                                               filename |-> Chars("receipt.pdf")]))
    /\ trace' = <<Event("extract", << >>, << >>, TRUE), Event("parse", << >>, << >>, TRUE)>>
    /\ UNCHANGED <<disk, clientRoots, rootsResult, scan, error, info>>

\* extract_from_image, from pytesseract.image_to_string on.
ExtractFromImage(raw) ==
    /\ pc = "idle"
    /\ pc' = "parsed"
    /\ LET text   == clean_text(raw)
           parsed == parse_receipt_data(text)
       IN  /\ call' = [NoCall EXCEPT !.op = "extract_from_image", !.phase = "image",
                                     !.raw = raw, !.text = text]
           /\ result' = Value(Answers(parsed,
                                      [raw_text |-> text,
                                       parsed   |-> parsed,
                                       type     |-> "image",
                                       filename |-> Chars("doc.jpg"),
                                       images   |-> <<JObj(<<<<K_name, JStr(Chars("doc.jpg"))>>,
                                                             <<K_width, JNum(595)>>,
                                                             <<K_height, JNum(842)>>,
                                                             <<K_original_width, JNum(595)>>,
                                                             <<K_original_height, JNum(842)>>>>)>>]))
    /\ trace' = <<Event("extract", << >>, << >>, TRUE), Event("parse", << >>, << >>, TRUE)>>
    /\ UNCHANGED <<disk, clientRoots, rootsResult, scan, error, info>>

NextConvert ==
    \/ \E text \in {Fixture} : CallParseReceiptData(text)
    \/ \E texts \in PdfTexts : ExtractFromPdf(texts)
    \/ \E raw \in ImageTexts : ExtractFromImage(raw)
    \/ \E type \in {"pdf", "image"} : CallFormatAsMarkdown(type)
    \/ CallFormatAsText
    \/ CallFormatAsJson
    \/ Return

SpecConvert == InitParse /\ [][NextConvert]_vars

-----------------------------------------------------------------------------
(* find_documents with patterns that hold separators, in a tree with links *)

\* The tree of these searches: besides the base tree, a document in /etc,
\* which /tmp/lnk leads to, and a link in /tmp/sub to a document of
\* /home/user.
FindTree ==
    (<<"etc", "a.png">>           :> File(12)) @@
    (<<"tmp", "sub", "doc.jpg">>  :> Link(<<"home", "user", "doc.jpg">>)) @@
    BaseTree

PatStarJpg == <<"*", ".", "j", "p", "g">>

PatUpJpg ==
    <<".", ".", "/", "h", "o", "m", "e", "/", "u", "s", "e", "r", "/",
      "*", ".", "j", "p", "g">>

PatLnk == <<"l", "n", "k", "/", "*">>

PatSub == <<"s", "u", "b", "/", "*">>

PatUpPdf == <<".", ".", "/", "*", ".", "p", "d", "f">>

FindPatterns == {PatStarPdf, PatStarJpg, PatUpJpg, PatLnk, PatSub, PatUpPdf}

InitFind ==
    /\ disk = FindTree
    /\ clientRoots \in {CreateRoots(disk, paths) : paths \in RootListsAll}
    /\ pc = "idle"
    /\ call = NoCall
    /\ rootsResult = << >>
    /\ scan = NoScan
    /\ result = NoResult
    /\ error = NoError
    /\ trace = << >>
    /\ info = << >>

NextFind ==
    \/ \E pattern \in FindPatterns, root_path \in FindRootsAll :
          CallFindDocuments(pattern, root_path)
    \/ HandleListRoots
    \/ RootsQueryFails
    \/ SetRootsAll
    \/ FindDocumentsStart
    \/ ScanRoot
    \/ ScanRootFails
    \/ FindDocumentsReturn
    \/ Return

SpecFind == InitFind /\ [][NextFind]_vars

-----------------------------------------------------------------------------
(* Granting roots: RootsManager.validate_roots and the client's constructor *)

\* A slip: every path passes, whatever is there.
validate_roots_unchecked(d, root_paths) ==
    [validated_roots |-> [i \in DOMAIN root_paths |-> Resolve(d, root_paths[i])],
     warnings |-> << >>]

\* RootsManager.validate_roots: the resolved paths that exist and are
\* directories, and a warning for each path that is left out.
validate_roots(d, root_paths) ==
    LET valid(p) == Exists(d, p) /\ IsDir(d, p)
        kept     == SelectSeq(root_paths, valid)
        dropped  == SelectSeq(root_paths, LAMBDA p : ~valid(p))
    IN  [validated_roots |-> [i \in DOMAIN kept |-> Resolve(d, kept[i])],
         warnings |->
            [i \in DOMAIN dropped |->
                Diagnostic(IF ~Exists(d, dropped[i]) THEN "Root path does not exist"
                           ELSE "Root path is not a directory", dropped[i])]
            \o (IF root_paths # << >> /\ kept = << >>
                THEN <<Diagnostic("No valid root directories provided", << >>)>>
                ELSE << >>)]

\* MCPClient.__init__: the roots the client answers the server's queries
\* with.
ClientRoots(d, roots) == IF roots # << >> THEN CreateRoots(d, roots) ELSE << >>

\* The paths a user may name as roots: directories, a link to a directory,
\* a file, a path that does not exist, and a path that is a file in some
\* trees and does not exist in the others.
GrantCands ==
    {<<"tmp">>, <<"tmp", "sub">>, <<"tmp", "lnk">>, <<"tmp", "receipt.pdf">>,
     <<"tmp", "missing.pdf">>, <<"tmp", "sub", "b.pdf">>}

GrantLists == SeqsUpTo(GrantCands, MaxRoots)

InitGrant ==
    /\ Init
    /\ clientRoots = << >>

\* The session starts: the paths the user named are validated and the
\* client is made with those that passed.
Grant(root_paths) ==
    /\ pc = "idle"
    /\ pc' = "done"
    /\ call' = [NoCall EXCEPT !.op = "grant", !.raw = root_paths]
    /\ clientRoots' = ClientRoots(disk, validate_roots(disk, root_paths).validated_roots)
    /\ info' = validate_roots(disk, root_paths).warnings
    /\ trace' = <<Event("grant", << >>, clientRoots', TRUE)>>
    /\ UNCHANGED <<disk, rootsResult, scan, result, error>>

NextGrant ==
    \/ \E root_paths \in GrantLists : Grant(root_paths)
    \/ Return

SpecGrant == InitGrant /\ [][NextGrant]_vars

-----------------------------------------------------------------------------
(* Several requests at once: the tools as tasks of the server's event loop *)

\* The requests the server may be handling at one time.
MaxTasks == 2

Tasks == 1..MaxTasks

\* The calls of the tasks: every tool that reads, and a conversion of a
\* document of the roots and of a file outside them.
LoopCalls ==
    {[NoCall EXCEPT !.op = "list_roots"],
     [NoCall EXCEPT !.op = "read_directory", !.path = <<"tmp">>],
     [NoCall EXCEPT !.op = "find_documents", !.pattern = PatStarPdf],
     [NoCall EXCEPT !.op = "convert_document", !.path = <<"tmp", "receipt.pdf">>,
                    !.fmt = "markdown"],
     [NoCall EXCEPT !.op = "convert_document", !.path = <<"etc", "passwd">>,
                    !.fmt = "markdown"]}

\* The tasks that run on the loop without an await that suspends them: a
\* task inside DocumentConverter.convert, which awaits nothing.
HoldsLoop(t) == pc[t] = "extracting"

\* The loop can run the next step of a task: no task is running on it.
LoopFree == \A t \in Tasks : ~HoldsLoop(t)

InitLoop ==
    /\ disk = BaseTree
    /\ clientRoots = CreateRoots(disk, <<<<"tmp">>>>)
    /\ pc = [t \in Tasks |-> "idle"]
    /\ call = [t \in Tasks |-> NoCall]
    /\ rootsResult = << >>
    /\ scan = NoScan
    /\ result = [t \in Tasks |-> NoResult]
    /\ error = [t \in Tasks |-> NoError]
    /\ trace = << >>
    /\ info = << >>

\* A request arrives and the server makes a task for its handler.
Arrive(t, c) ==
    /\ pc[t] = "idle"
    /\ pc' = [pc EXCEPT ![t] = "pending"]
    /\ call' = [call EXCEPT ![t] = c]
    /\ UNCHANGED <<disk, clientRoots, rootsResult, scan, result, error, trace, info>>

\* The loop runs the handler up to its first await that suspends it:
\* ctx.session.list_roots().
Begin(t) ==
    /\ pc[t] = "pending"
    /\ LoopFree
    /\ pc' = [pc EXCEPT ![t] = "query"]
    /\ UNCHANGED <<disk, clientRoots, call, rootsResult, scan, result, error, trace, info>>

\* The client's answer to the roots query of the task is there.
ClientReplies(t) ==
    /\ pc[t] = "query"
    /\ pc' = [pc EXCEPT ![t] = "reply"]
    /\ UNCHANGED <<disk, clientRoots, call, rootsResult, scan, result, error, trace, info>>

\* The loop resumes the handler with the answer.  A tool that reads runs
\* to its end; convert_document checks the path and the format and, when
\* they pass, goes on into DocumentConverter.convert without an await that
\* suspends it.
Resume(t) ==
    /\ pc[t] = "reply"
    /\ LoopFree
    /\ LET input_file == Resolve(disk, call[t].path)
       IN  IF call[t].op # "convert_document"
           THEN /\ pc' = [pc EXCEPT ![t] = "done"]
                /\ result' = [result EXCEPT ![t] = Value(call[t].op)]
                /\ UNCHANGED error
           ELSE IF ~IsPathAllowed(disk, clientRoots, input_file)
                THEN /\ pc' = [pc EXCEPT ![t] = "done"]
                     /\ error' = [error EXCEPT ![t] = Raised("AccessDenied")]
                     /\ UNCHANGED result
           ELSE IF ~IsFile(disk, input_file)
                THEN /\ pc' = [pc EXCEPT ![t] = "done"]
                     /\ error' = [error EXCEPT ![t] = Raised("NotAFile")]
                     /\ UNCHANGED result
           ELSE /\ pc' = [pc EXCEPT ![t] = "extracting"]
                /\ UNCHANGED <<result, error>>
    /\ UNCHANGED <<disk, clientRoots, call, rootsResult, scan, trace, info>>

\* extract_from_pdf or extract_from_image returns, and the rendering with it.
ExtractionEnds(t) ==
    /\ pc[t] = "extracting"
    /\ pc' = [pc EXCEPT ![t] = "done"]
    /\ result' = [result EXCEPT ![t] =
                     Value(Rendered(RawData(Resolve(disk, call[t].path)), call[t].fmt))]
    /\ UNCHANGED <<disk, clientRoots, call, rootsResult, scan, error, trace, info>>

\* pdfplumber, PIL, cv2 or pytesseract raises.
ExtractionRaises(t) ==
    /\ pc[t] = "extracting"
    /\ pc' = [pc EXCEPT ![t] = "done"]
    /\ error' = [error EXCEPT ![t] = ConversionFailed("ExtractionFailure")]
    /\ UNCHANGED <<disk, clientRoots, call, rootsResult, scan, result, trace, info>>

\* The answer of the task is sent.
Respond(t) ==
    /\ pc[t] = "done"
    /\ pc' = [pc EXCEPT ![t] = "idle"]
    /\ call' = [call EXCEPT ![t] = NoCall]
    /\ result' = [result EXCEPT ![t] = NoResult]
    /\ error' = [error EXCEPT ![t] = NoError]
    /\ UNCHANGED <<disk, clientRoots, rootsResult, scan, trace, info>>

NextLoop ==
    \/ \E t \in Tasks, c \in LoopCalls : Arrive(t, c)
    \/ \E t \in Tasks : Begin(t)
    \/ \E t \in Tasks : ClientReplies(t)
    \/ \E t \in Tasks : Resume(t)
    \/ \E t \in Tasks : ExtractionEnds(t)
    \/ \E t \in Tasks : ExtractionRaises(t)
    \/ \E t \in Tasks : Respond(t)

SpecLoop == InitLoop /\ [][NextLoop]_vars

-----------------------------------------------------------------------------
(* What the claims speak of *)

\* The positions of the trace at which ev happened.
EventsOf(ev) == {i \in DOMAIN trace : trace[i].ev = ev}

\* Root r is q or a true ancestor of q, component by component.
IsAncestorOrSelf(r, q) ==
    \/ r = q
    \/ Len(r) < Len(q) /\ \A k \in 1..Len(r) : r[k] = q[k]

\* Some root of roots is q or an ancestor of q.
ContainedIn(roots, q) ==
    \E i \in DOMAIN roots : IsAncestorOrSelf(file_url_to_path(roots[i].uri), q)

\* The canonical form of a requested path; for a file, its parent directory.
CanonicalForm(d, p) ==
    LET c == Resolve(d, p) IN IF Kind(d, c) = "file" THEN Parent(c) ELSE c

\* The grant ["/tmp"].
TmpOnly == CreateRoots(BaseTree, <<<<"tmp">>>>)

\* C1: is_path_allowed(p) is true if and only if the canonical form of p
\* (for a file, its parent directory) is a granted root or lies below one.
C1_Containment ==
    \A i \in EventsOf("authorize") :
        trace[i].ok <=> ContainedIn(trace[i].roots, CanonicalForm(disk, trace[i].path))

\* C2: an extraction is started only for a path that the same call has
\* authorized against the granted roots; under the grant ["/tmp"],
\* convert_document of /etc/passwd ends with AccessDenied and no extraction,
\* and convert_document of /tmp/receipt.pdf (with one of the output formats)
\* comes to the extraction.
C2_AuthorizedBeforeExtraction ==
    /\ \A i \in EventsOf("extract") :
          \E j \in 1..(i - 1) :
             /\ trace[j].ev = "authorize"
             /\ trace[j].ok
             /\ trace[j].path = trace[i].path
             /\ ContainedIn(trace[j].roots, CanonicalForm(disk, trace[i].path))
    /\ (/\ pc = "done"
        /\ call.op = "convert_document"
        /\ \E j \in EventsOf("authorize") : trace[j].roots = TmpOnly)
       => /\ call.path = <<"etc", "passwd">>
             => error.kind = "AccessDenied" /\ EventsOf("extract") = {}
          /\ (call.path = <<"tmp", "receipt.pdf">> /\ call.fmt \in Range(OUTPUT_FORMATS))
             => EventsOf("extract") # {}

\* C2's case: /tmp/receipt.pdf was converted under the grant ["/tmp"].
C2_Witness ==
    /\ pc = "done"
    /\ call.op = "convert_document"
    /\ call.path = <<"tmp", "receipt.pdf">>
    /\ \E j \in EventsOf("authorize") : trace[j].roots = TmpOnly
    /\ EventsOf("extract") # {}
    /\ result.ok

\* C3: save_conversion does nothing with the input before the output's
\* parent is authorized, and when that parent is inside no granted root the
\* call ends there with AccessDenied.
C3_OutputAuthorizedFirst ==
    call.op = "save_conversion" =>
       /\ \A i \in DOMAIN trace :
             trace[i].ev \in {"authorize", "validate", "validate_input", "extract",
                              "render", "write"}
             => \E j \in 1..(i - 1) : trace[j].ev = "authorize_output" /\ trace[j].ok
       /\ \A j \in EventsOf("authorize_output") :
             ~ContainedIn(trace[j].roots, Parent(Resolve(disk, call.out)))
             => /\ ~trace[j].ok
                /\ j = Len(trace)
                /\ pc = "done"
                /\ error.kind = "AccessDenied"
                /\ ~result.ok

\* C3's case: an input that could be converted, an output outside the roots.
C3_Witness ==
    /\ pc = "done"
    /\ call.op = "save_conversion"
    /\ call.path = <<"tmp", "receipt.pdf">>
    /\ call.out = <<"etc", "out.md">>
    /\ Last(trace).ev = "authorize_output"
    /\ ContainedIn(Last(trace).roots, <<"tmp">>)
    /\ error.kind = "AccessDenied"

\* The events that decide by a list of roots.
DecisionEvents == {"authorize", "authorize_output", "list"}

\* C4: every authorization and every listing of the roots uses the answer
\* to a roots query of the same call, issued for it; the answer is the
\* client's grant of the moment it was given, so a root revoked before a
\* check plays no part in it.
C4_NoStaleRoots ==
    /\ \A i \in DOMAIN trace :
          trace[i].ev \in DecisionEvents
          => /\ i > 2
             /\ trace[i - 1].ev = "roots"
             /\ trace[i - 2].ev = "query"
             /\ trace[i].roots = trace[i - 1].roots
    /\ pc = "reply"
       => Last(trace).ev = "roots" /\ (Last(trace).ok => Last(trace).roots = clientRoots)
    /\ pc \notin {"idle", "query", "reply"}
       => \A i \in DOMAIN trace :
             (/\ trace[i].ev \in DecisionEvents
              /\ trace[i - 1].ok
              /\ \A k \in (i + 1)..Len(trace) : trace[k].ev # "query")
             => trace[i].roots = clientRoots

\* C4's case: the grant changed inside one save_conversion, and the input
\* check refused what the roots of the output check would have allowed.
C4_Witness ==
    /\ call.op = "save_conversion"
    /\ \E i \in EventsOf("authorize_output"), j \in EventsOf("authorize") :
          /\ trace[i].ok
          /\ ~trace[j].ok
          /\ IsPathAllowed(disk, trace[i].roots, call.path)

\* C5: a read of a path that no granted root contains fails with
\* AccessDenied, and a read of a path that does not exist fails with
\* NotFound.
C5_NotFoundIsNotAccessDenied ==
    (/\ pc = "done"
     /\ call.op \in {"read_directory", "convert_document"}
     /\ \E i \in EventsOf("authorize") : ~trace[i].ok)
    => IF Exists(disk, call.path)
       THEN error.kind = "AccessDenied"
       ELSE error.kind = "NotFound"

\* The scan events of the trace, in order.
IsScanEvent(e) == e.ev = "scan"

ScannedRoots ==
    LET sc == SelectSeq(trace, IsScanEvent) IN [i \in DOMAIN sc |-> sc[i].path]

\* The roots the call was answered, as list_roots returns them.
ListedRoots ==
    IF EventsOf("list") = {} THEN << >>
    ELSE RootPaths(trace[CHOOSE i \in EventsOf("list") : TRUE].roots)

\* suf is the end of s.
EndsWith(s, suf) ==
    Len(suf) <= Len(s) /\ SubSeq(s, Len(s) - Len(suf) + 1, Len(s)) = suf

\* sub is a piece of s.
Contains(s, sub) ==
    \E k \in 0..Len(s) : k + Len(sub) <= Len(s) /\ SubSeq(s, k + 1, k + Len(sub)) = sub

\* The regular files of d below one of the roots.
FilesUnder(d, roots) ==
    {p \in DOMAIN d : d[p].kind = "file" /\ \E r \in roots : IsAncestorOrSelf(r, p)}

DocumentExtensions ==
    {<<"p", "d", "f">>, <<"j", "p", "g">>, <<"j", "p", "e", "g">>, <<"p", "n", "g">>}

\* The extension of a file name, lower-cased, when it is a supported one.
HasExtension(name, ext) == EndsWith(LowerSeq(Chars(name)), <<".">> \o ext)

\* C6 as the spec has it: a root argument that is not one of the granted
\* roots ends find_documents with InvalidRoot and nothing is scanned; one
\* that is granted is the only root scanned.
C6_AnyRootArgumentChecked ==
    (pc = "done" /\ call.op = "find_documents" /\ call.root.kind # "none")
    => IF call.root.kind = "path" /\ call.root.str \in Range(ListedRoots)
       THEN ScannedRoots = <<call.root.str>>
       ELSE error.kind = "InvalidRoot" /\ ScannedRoots = << >>

\* C6: find_documents with a non-empty root argument scans that root alone,
\* and only when the argument is one of the granted roots as list_roots
\* returns them; otherwise (a subdirectory of a root, another spelling of a
\* root, a path outside) it ends with InvalidRoot and scans nothing.  With no
\* root argument, or with the empty string, it scans every granted root.
C6_RootArgument ==
    (pc = "done" /\ call.op = "find_documents")
    => /\ (call.root.kind = "path" /\ call.root.str \in Range(ListedRoots))
          => ScannedRoots = <<call.root.str>> /\ error = NoError
       /\ (call.root.kind = "path" /\ call.root.str \notin Range(ListedRoots))
          => error.kind = "InvalidRoot" /\ ScannedRoots = << >> /\ ~result.ok
       /\ call.root.kind \in {"none", "empty"}
          => ScannedRoots = ListedRoots /\ error = NoError

\* C6's case: the empty string as the root argument, two roots granted.
C6_Witness ==
    /\ pc = "done"
    /\ call.op = "find_documents"
    /\ call.root = EmptyRoot
    /\ Len(ListedRoots) = 2
    /\ ScannedRoots = ListedRoots
    /\ result.ok

\* C7: find_documents("*.pdf"), when no scan fails, returns the files named
\* *.pdf below the scanned roots: none missing, none extra, none twice, each
\* with a root it lies under and with its size.
C7_ExactlyThePdfFiles ==
    (/\ pc = "done"
     /\ call.op = "find_documents"
     /\ call.pattern = PatStarPdf
     /\ result.ok
     /\ \A i \in EventsOf("scan") : trace[i].ok)
    => LET hits == BagToSet(result.value)
       IN  /\ {h.path : h \in hits}
              = {p \in FilesUnder(disk, Range(ScannedRoots)) :
                    EndsWith(Chars(Last(p)), <<".", "p", "d", "f">>)}
           /\ \A h \in hits :
                 /\ CopiesIn(h, result.value) = 1
                 /\ IsAncestorOrSelf(h.root, h.path)
                 /\ h.size = disk[h.path].size
           /\ \A h, g \in hits : h.path = g.path => h = g

\* C8: for a pattern with neither '*' nor '?', when no scan fails, the hits
\* are the files with a supported extension below the scanned roots whose
\* name contains the pattern, character for character.
C8_LiteralSubstring ==
    (/\ pc = "done"
     /\ call.op = "find_documents"
     /\ \A k \in DOMAIN call.pattern : call.pattern[k] \notin {"*", "?"}
     /\ result.ok
     /\ \A i \in EventsOf("scan") : trace[i].ok)
    => {h.path : h \in BagToSet(result.value)}
       = {p \in FilesUnder(disk, Range(ScannedRoots)) :
             /\ Contains(Chars(Last(p)), call.pattern)
             /\ \E ext \in DocumentExtensions : HasExtension(Last(p), ext)}

\* The hits find_documents has collected or returned.
HitsSoFar ==
    IF call.op # "find_documents" THEN {}
    ELSE BagToSet(scan.results) \cup (IF result.ok THEN BagToSet(result.value) ELSE {})

\* C9: every hit of find_documents is a regular file whose extension, in
\* lower case, is one of pdf, jpg, jpeg, png; the hit carries that
\* extension, the size of the file, its name and the root it was found under.
C9_HitsAreDocuments ==
    \A h \in HitsSoFar :
       /\ Kind(disk, Resolve(disk, h.path)) = "file"
       /\ h.name = Last(h.path)
       /\ \E ext \in DocumentExtensions :
             HasExtension(h.name, ext) /\ h.extension = ext
       /\ h.size = disk[Resolve(disk, h.path)].size
       /\ h.root \in Range(ScannedRoots)
       /\ IsAncestorOrSelf(h.root, h.path)

\* C9's case: inv.PDF is returned with the extension pdf, and the directory
\* x.pdf and the file notes.txt beside it are not.
C9_Witness ==
    /\ pc = "done"
    /\ call.op = "find_documents"
    /\ call.pattern = PatAny
    /\ <<"tmp">> \in Range(ScannedRoots)
    /\ \E h \in BagToSet(result.value) :
          h.path = <<"tmp", "sub", "inv.PDF">> /\ h.extension = <<"p", "d", "f">>

\* The roots find_documents is to search.
SearchPaths == IF call.root.kind = "path" THEN <<call.root.str>> ELSE ListedRoots

C11_FailuresReachTheCaller ==
    (pc = "done" /\ \E i \in DOMAIN trace : ~trace[i].ok /\ trace[i].ev # "scan")
    => error.kind # "none" /\ ~result.ok

\* s is at most t in the order of the code points, character by character.
LexLeq(s, t) ==
    \E k \in 0..Len(s) :
       /\ k <= Len(t)
       /\ \A m \in 1..k : s[m] = t[m]
       /\ \/ k = Len(s)
          \/ k < Len(t) /\ Ord(s[k + 1]) < Ord(t[k + 1])

\* C12: read_directory on an authorized directory returns one entry for
\* each immediate child and nothing else, the directories before the files
\* and each group by lower-cased name; the directory holding b.txt, A_dir
\* and a.txt is listed as A_dir, a.txt, b.txt.
C12_ListingOrder ==
    (pc = "done" /\ call.op = "read_directory" /\ result.ok)
    => LET files == result.value
           dir   == Resolve(disk, call.path)
           kids  == {q \in DOMAIN disk :
                        Len(q) = Len(dir) + 1 /\ \A k \in 1..Len(dir) : q[k] = dir[k]}
       IN  /\ {files[i].path : i \in DOMAIN files} = kids
           /\ Len(files) = Cardinality(kids)
           /\ \A i \in DOMAIN files :
                 /\ files[i].name = Last(files[i].path)
                 /\ files[i].type = "directory"
                    <=> Kind(disk, Resolve(disk, files[i].path)) = "dir"
                 /\ files[i].type \in {"directory", "file"}
           /\ \A i, j \in DOMAIN files :
                 i < j
                 => /\ files[i].type = "file" => files[j].type = "file"
                    /\ files[i].type = files[j].type
                       => LexLeq(LowerSeq(Chars(files[i].name)),
                                 LowerSeq(Chars(files[j].name)))
           /\ call.path = <<"home", "user", "box">>
              => [i \in DOMAIN files |-> files[i].name] = <<"A_dir", "a.txt", "b.txt">>

\* C12's case: the directory holding b.txt, A_dir and a.txt has been listed.
C12_Witness ==
    /\ pc = "done"
    /\ call.op = "read_directory"
    /\ call.path = <<"home", "user", "box">>
    /\ result.ok
    /\ Len(result.value) = 3

\* C13: read_directory on an authorized path that is no directory ends
\* with NotADirectory and convert_document on an authorized path that is no
\* regular file ends with NotAFile; neither returns anything, no entry is
\* read and no extraction is started.
C13_KindMismatch ==
    /\ (/\ pc = "done"
        /\ call.op = "read_directory"
        /\ \E i \in EventsOf("authorize") : trace[i].ok
        /\ Kind(disk, Resolve(disk, call.path)) # "dir")
       => /\ error.kind = "NotADirectory"
          /\ ~result.ok
          /\ EventsOf("entries") = {}
    /\ (/\ pc = "done"
        /\ call.op = "convert_document"
        /\ \E i \in EventsOf("authorize") : trace[i].ok
        /\ Kind(disk, Resolve(disk, call.path)) # "file")
       => /\ error.kind = "NotAFile"
          /\ ~result.ok
    /\ (call.op = "convert_document" /\ Kind(disk, Resolve(disk, call.path)) # "file")
       => EventsOf("extract") \cup EventsOf("render") = {}
    /\ (call.op = "read_directory" /\ Kind(disk, Resolve(disk, call.path)) # "dir")
       => EventsOf("entries") = {} /\ ~result.ok

\* C13's case: read_directory was asked for a file inside a granted root.
C13_Witness ==
    /\ pc = "done"
    /\ call.op = "read_directory"
    /\ call.path = <<"tmp", "receipt.pdf">>
    /\ \E i \in EventsOf("authorize") : trace[i].ok
    /\ error.kind = "NotADirectory"

\* The calls that convert.
Converting == call.op \in {"convert_document", "save_conversion"}

\* C14 as the spec has it: with any token but "text", "markdown", "json",
\* convert_document and save_conversion end with InvalidFormat.
C14_AlwaysInvalidFormat ==
    (pc = "done" /\ Converting /\ call.fmt \notin {"text", "markdown", "json"})
    => error.kind = "InvalidFormat"

\* C14: with any token but "text", "markdown", "json", convert_document and
\* save_conversion end with an error, extract nothing, render nothing and
\* write nothing; the error is InvalidFormat whenever the checks that come
\* before the token's pass, that is when the input is an authorized regular
\* file (and, for save_conversion, the output's parent is authorized).
C14_FormatToken ==
    (Converting /\ call.fmt \notin {"text", "markdown", "json"})
    => /\ EventsOf("extract") \cup EventsOf("render") \cup EventsOf("write") = {}
       /\ ~result.ok
       /\ pc = "done" => error.kind # "none"
       /\ (/\ pc = "done"
           /\ \E i \in EventsOf("authorize") : trace[i].ok
           /\ Kind(disk, Resolve(disk, call.path)) = "file")
          => error.kind = "InvalidFormat"

\* C14's case: save_conversion of a good input to a good output with the
\* token "JSON".
C14_Witness ==
    /\ pc = "done"
    /\ call.op = "save_conversion"
    /\ call.fmt = "JSON"
    /\ call.path = <<"tmp", "receipt.pdf">>
    /\ call.out = <<"tmp", "out.md">>
    /\ error.kind = "InvalidFormat"
    /\ ~Exists(disk, <<"tmp", "out.md">>)

\* The stages of convert_document, in their order.
Stages == <<"authorize", "validate", "validate_input", "extract", "parse", "render">>

IsStageEvent(e) == e.ev \in Range(Stages)

\* C15: the stages of convert_document run in the order authorize,
\* validate, (extension) validate, extract, parse, render; a stage that
\* fails is the last to run and the call ends with an error and no text; a
\* text is returned only when every stage has run and succeeded.  An
\* unsupported extension is reported as UnsupportedFormat before any
\* extraction, and an error of the PDF or OCR backend as a failed
\* conversion with nothing rendered.
C15_FailFast ==
    call.op = "convert_document"
    => LET run == SelectSeq(trace, IsStageEvent)
       IN  /\ Len(run) <= Len(Stages)
           /\ \A k \in DOMAIN run : run[k].ev = Stages[k]
           /\ \A k \in DOMAIN run :
                 ~run[k].ok
                 => /\ k = Len(run)
                    /\ pc = "done"
                    /\ error.kind # "none"
                    /\ ~result.ok
           /\ result.ok
              => Len(run) = Len(Stages) /\ \A k \in DOMAIN run : run[k].ok
           /\ pc = "done" => (result.ok <=> error = NoError)
           /\ (/\ pc = "done"
               /\ Len(run) >= 2
               /\ run[2].ok
               /\ \A ext \in DocumentExtensions : ~HasExtension(Last(call.path), ext))
              => /\ error.cause = "UnsupportedFormat"
                 /\ EventsOf("extract") = {}
           /\ (\E i \in EventsOf("extract") : ~trace[i].ok)
              => /\ error.cause = "ExtractionFailure"
                 /\ EventsOf("parse") \cup EventsOf("render") = {}

\* C15's case: the backend failed in the extraction of an authorized,
\* supported file.
C15_Witness ==
    /\ pc = "done"
    /\ call.op = "convert_document"
    /\ call.path = <<"tmp", "receipt.pdf">>
    /\ Last(trace).ev = "extract"
    /\ ~Last(trace).ok
    /\ error.cause = "ExtractionFailure"

\* The text the call's conversion returned: the render step of the trace
\* stands for it, and it is the rendering of the call's input in the
\* call's format.
ConvertedText ==
    [format |-> call.fmt,
     data   |-> [type     |-> IF HasExtension(Last(Resolve(disk, call.path)), <<"p", "d", "f">>)
                              THEN "pdf" ELSE "image",
                 filename |-> Last(Resolve(disk, call.path))]]

\* C16: when save_conversion succeeds, the file at the resolved output path
\* is a regular file that holds the text convert_document returns for the
\* call's input and format, and nothing of what it held before.
C16_SavedContent ==
    (pc = "done" /\ call.op = "save_conversion" /\ result.ok)
    => LET output_file == Resolve(disk, call.out)
       IN  /\ output_file \in DOMAIN disk
           /\ disk[output_file]
              = [kind |-> "file", size |-> Len(ConvertedText.data.filename),
                 text |-> ConvertedText]
           /\ \E i \in EventsOf("render") : trace[i].ok
           /\ Last(trace).ev = "write" /\ Last(trace).ok

\* C16's case: the conversion was saved over a file that existed.
C16_Witness ==
    /\ pc = "done"
    /\ call.op = "save_conversion"
    /\ call.out = <<"tmp", "sub", "notes.txt">>
    /\ result.ok
    /\ disk[<<"tmp", "sub", "notes.txt">>] # BaseTree[<<"tmp", "sub", "notes.txt">>]

\* The parser has answered for call.text.
Parsed == pc \in {"parsed", "done"} /\ call.op \in {"parse_receipt_data", "format_as_markdown"}

\* The payment-items list of a record, empty when it has none.
ItemsOf(parsed) == IF HasKey(parsed, "payment_items") THEN Get(parsed, "payment_items") ELSE << >>

\* Where on a line a number of the form "<int>. <description>" starts: at
\* the start of the line or after white space, digits, a dot, a blank and
\* a description.
NumberStarts(line) ==
    {i \in DOMAIN line :
        /\ i = 1 \/ IsSpace(line[i - 1])
        /\ IsDigit(line[i])
        /\ LET rest == SubSeq(line, i, Len(line))
               m    == ItemMatch(rest)
           IN  /\ m.found
               /\ rest[Len(m.number) + 2] = " "
               /\ m.description # << >>}

\* The numbered lines of a text, in document order, whatever precedes the
\* number on its line.
NumberedLines(text) ==
    LET lines == SelectSeq(Split(text), LAMBDA line : NumberStarts(line) # {})
    IN  [k \in DOMAIN lines |->
            LET m == ItemMatch(SubSeq(lines[k], Least(NumberStarts(lines[k])), Len(lines[k])))
            IN  [number |-> m.number, description |-> m.description]]

\* C17: the payment-items list parse_receipt_data returns holds every
\* numbered line "<int>. <description>" of its input text, as number and
\* description, in document order, whatever precedes the number on its line
\* and whichever field patterns matched.
C17_EveryNumberedLine ==
    Parsed => ItemsOf(result.value.parsed) = NumberedLines(call.text)

\* The keys of a record.
KeysOf(parsed) == {parsed[k].key : k \in DOMAIN parsed}

\* The texts that hold a receipt-number label with its value and a
\* total-amount label with its value, and nothing else.
TwoLabelTexts ==
    {a \o <<NL>> \o b : a \in {PieceReceiptNo}, b \in {PieceTotal, PieceTotalNextLine}}
    \cup {b \o <<NL>> \o a : a \in {PieceReceiptNo}, b \in {PieceTotal, PieceTotalNextLine}}

\* C18: for a text that holds only a receipt-number label with a value and
\* a total-amount label with a value, parse_receipt_data returns a record in
\* which exactly receipt_no and total_amount are set; and for any text a
\* field none of whose patterns matches is not in the record.
C18_Partiality ==
    Parsed =>
       /\ call.text \in TwoLabelTexts =>
             KeysOf(result.value.parsed) = {"receipt_no", "total_amount"}
       /\ \A k \in DOMAIN patterns :
             ~FirstMatch(call.text, patterns[k].pattern_list).found =>
                ~HasKey(result.value.parsed, patterns[k].field)

\* format_as_markdown has answered for the record parsed from call.text.
RenderedMarkdown == pc = "done" /\ call.op = "format_as_markdown"

StartsWith(s, prefix) == Len(prefix) <= Len(s) /\ SubSeq(s, 1, Len(prefix)) = prefix

\* The rows of the table of fields in a markdown text, in their order.
FieldRows(markdown) ==
    SelectSeq(Split(markdown), LAMBDA line : StartsWith(line, <<"|", " ", "*", "*">>))

\* A row for every parsed field of the fixed list, in the list's order.
RowsFor(parsed) ==
    LET mapped == SelectSeq(TextFieldMappings, LAMBDA m : HasKey(parsed, m[2]))
    IN  [k \in DOMAIN mapped |-> MarkdownRow(mapped[k][1], Get(parsed, mapped[k][2]))]

\* "| **FPX Transaksi ID** |"
TransactionRowStart ==
    <<"|", " ", "*", "*", "F", "P", "X", " ", "T", "r", "a", "n", "s", "a", "k", "s", "i", " ",
      "I", "D", "*", "*", " ", "|">>

\* C19: when the record has parsed fields, the table format_as_markdown
\* writes has one row "| **<label>** | <value> |" for every parsed field of
\* the fixed list (datetime, payment date, payment type, company code,
\* company name, payment method, transaction id, bank, total amount, notes),
\* in that order, and no other row; the row of FPX Transaksi ID is there
\* if and only if transaction_id was parsed.
C19_RowPerParsedField ==
    (RenderedMarkdown /\ result.value.parsed # << >>) =>
       /\ FieldRows(result.value.markdown) = RowsFor(result.value.parsed)
       /\ (\E line \in Range(Split(result.value.markdown)) :
              StartsWith(line, TransactionRowStart))
             <=> HasKey(result.value.parsed, "transaction_id")

\* The first position from p on where sub is in s, 0 when there is none.
FirstAt(s, sub, p) ==
    LET at == {q \in p..(Len(s) - Len(sub) + 1) : SubSeq(s, q, q + Len(sub) - 1) = sub}
    IN  IF p = 0 \/ at = {} THEN 0 ELSE Least(at)

\* The texts are in s one after the other, in their order.
RECURSIVE InOrderFrom(_, _, _)
InOrderFrom(s, subs, p) ==
    IF subs = << >> THEN TRUE
    ELSE LET q == FirstAt(s, subs[1], p)
         IN  q # 0 /\ InOrderFrom(s, Tail(subs), q + Len(subs[1]))

\* The three numbered payment lines of the receipt of the test, as written
\* there: "1. Caruman Bulanan(...)(RM28.80)", "2. Tunggakan Caruman-" and
\* "3. Kekurangan Caruman-".
FixtureNumberedLines ==
    [k \in DOMAIN NumberedLines(Fixture) |-> ItemLine(NumberedLines(Fixture)[k])]

\* C20: the markdown format_as_markdown makes of parse_receipt_data of the
\* receipt text of the test holds the three numbered payment lines of that
\* text, verbatim and in their order.
C20_FixtureNumberedLines ==
    (RenderedMarkdown /\ call.text = Fixture) =>
       /\ Len(FixtureNumberedLines) = 3
       /\ InOrderFrom(result.value.markdown, FixtureNumberedLines, 1)

\* format_as_json has answered for result.value.data.
RenderedJson == pc = "done" /\ call.op = "format_as_json"

\* How often sub is in s.
Count(s, sub) ==
    Cardinality({q \in 1..(Len(s) - Len(sub) + 1) : SubSeq(s, q, q + Len(sub) - 1) = sub})

\* A string as it stands in a JSON text.
Quoted(s) == Dumps(JStr(s), 0)

\* What an entry of items reads as, from its tag to its last value: a
\* field with key and value, a payment item with number and description.
EntryText(tag, name1, value1, name2, value2) ==
    <<"\"", "t", "y", "p", "e", "\"", ":", " ">> \o Quoted(tag)
       \o <<",", NL>> \o Indent(3) \o Quoted(name1) \o <<":", " ">> \o Quoted(value1)
       \o <<",", NL>> \o Indent(3) \o Quoted(name2) \o <<":", " ">> \o Quoted(value2)

\* The entries the items of a record ask for, in parse order.
EntriesFor(parsed) ==
    Flatten([k \in DOMAIN parsed |->
               IF parsed[k].key = "payment_items"
               THEN [n \in DOMAIN parsed[k].value |->
                       EntryText(K_payment_item, K_number, parsed[k].value[n].number,
                                 K_description, parsed[k].value[n].description)]
               ELSE <<EntryText(K_field, K_key, NameChars(parsed[k].key),
                                K_value, parsed[k].value)>>])

\* The pages of the document, in extraction order: number and text.
PagesFor(data) ==
    LET pages == IF data.type = "pdf" THEN data.pages
                 ELSE <<[page |-> 1, text |-> GetOr(data, "raw_text", << >>)]>>
    IN  [k \in DOMAIN pages |->
            Quoted(K_page) \o <<":", " ">> \o Str(k) \o <<",", NL>> \o Indent(3)
               \o Quoted(K_text) \o <<":", " ">> \o Quoted(pages[k].text)]

\* The top of the object and its keys after the pages.
JsonFrame(data) ==
    <<<<"{", NL>> \o Indent(1) \o Quoted(K_pages) \o <<":", " ", "[", NL>>,
      <<NL>> \o Indent(1) \o Quoted(K_charts) \o <<":", " ", "[", "]", ",", NL>>
         \o Indent(1) \o Quoted(K_items) \o <<":", " ", "[">>,
      <<NL>> \o Indent(1) \o Quoted(K_metadata) \o <<":", " ", "{", NL>>
         \o Indent(2) \o Quoted(K_filename) \o <<":", " ">>
         \o Quoted(GetOr(data, "filename", << >>)) \o <<",", NL>>
         \o Indent(2) \o Quoted(K_type) \o <<":", " ">> \o Quoted(NameChars(data.type))>>

RM28_80 == <<"R", "M", "2", "8", ".", "8", "0">>

\* C21: the text format_as_json returns is an object with the keys pages,
\* charts (an empty list), items and metadata (with the filename and the
\* source kind); items has one entry tagged "field" with key and value for
\* each parsed field and one entry tagged "payment_item" for each payment
\* item, in parse order, and no other; the pages are in extraction order;
\* and for the receipt text of the test there is a field entry with key
\* total_amount and value RM28.80.
C21_JsonShape ==
    RenderedJson =>
       LET json   == result.value.json
           data   == result.value.data
           parsed == data.parsed
       IN  /\ StartsWith(json, JsonFrame(data)[1])
           /\ InOrderFrom(json, JsonFrame(data), 1)
           /\ Count(json, <<NL>> \o Indent(1) \o <<"\"">>) = 4
           /\ InOrderFrom(json, EntriesFor(parsed), 1)
           /\ Count(json, <<NL>> \o Indent(3) \o <<"\"", "t", "y", "p", "e", "\"", ":">>)
                 = Len(EntriesFor(parsed))
           /\ InOrderFrom(json, PagesFor(data), 1)
           /\ Count(json, <<NL>> \o Indent(3) \o Quoted(K_page) \o <<":">>) = Len(PagesFor(data))
           /\ call.text = Fixture =>
                 IsIn(EntryText(K_field, K_key, NameChars("total_amount"), K_value, RM28_80),
                      json)

C21_Witness ==
    /\ RenderedJson
    /\ HasKey(result.value.parsed, "payment_items")
    /\ HasKey(result.value.parsed, "total_amount")

\* The raw texts laid out one "label : value" pair or one numbered item
\* to a line.
LaidOutTexts ==
    {Join(ps) : ps \in SeqsUpTo({PieceReceiptNo, PieceTotal, PieceItem, PieceTransaction},
                                MaxPieces)}

\* The record without its markers of organization and document type.
FieldsAndItems(parsed) ==
    SelectSeq(parsed, LAMBDA item : item.key \notin {"organization", "document_type"})

\* C25: for a raw text laid out one "label : value" pair or one numbered
\* item to a line, the record parsed from the cleaned text has the field
\* values and the payment items of the record parsed from the raw text.
C25_CleanPreservesParse ==
    (pc \in {"parsed", "done"} /\ call.phase = "image" /\ call.raw \in LaidOutTexts) =>
       FieldsAndItems(result.value.parsed) = FieldsAndItems(parse_receipt_data(call.raw))

\* The patterns of field k that match somewhere in the text.
Matching(text, k) ==
    {j \in DOMAIN patterns[k].pattern_list : Search(text, patterns[k].pattern_list[j]).found}

\* C27: for each field, parse_receipt_data sets the field from the first
\* pattern, in the declared order, that matches anywhere in the text,
\* whether or not a later pattern of the field matches earlier in the text;
\* a field none of whose patterns matches is not set.
C27_FirstMatchWins ==
    Parsed =>
       \A k \in DOMAIN patterns :
          LET parsed == result.value.parsed
              field  == patterns[k].field
              first  == patterns[k].pattern_list[Least(Matching(call.text, k))]
          IN  IF Matching(call.text, k) = {} THEN ~HasKey(parsed, field)
              ELSE /\ HasKey(parsed, field)
                   /\ Get(parsed, field) = Strip(Search(call.text, first).group)

\* A later pattern of a field matches earlier in the text than the first
\* one that matches.
C27_Witness ==
    /\ Parsed
    /\ \E k \in DOMAIN patterns :
          \E j \in Matching(call.text, k) :
             /\ j > Least(Matching(call.text, k))
             /\ MatchStart(call.text, patterns[k].pattern_list[j])
                   < MatchStart(call.text,
                                patterns[k].pattern_list[Least(Matching(call.text, k))])
             /\ Search(call.text, patterns[k].pattern_list[j]).group
                   # Get(result.value.parsed, patterns[k].field)

\* format_as_text has answered for result.value.data.
RenderedText == pc = "done" /\ call.op = "format_as_text"

\* C28: when the record has a document type or a receipt number, the text
\* format_as_text returns begins with a header that carries each of the
\* two that is present: a parsed receipt number is in the first line with
\* or without a document type, and so is a parsed document type.
C28_HeaderForEachPart ==
    RenderedText =>
       LET parsed == result.value.parsed
           first  == Split(result.value.text)[1]
       IN  /\ Truthy(parsed, "receipt_no") => IsIn(Get(parsed, "receipt_no"), first)
           /\ Truthy(parsed, "document_type") => IsIn(Get(parsed, "document_type"), first)

\* The marker of the footer note is in the text extracted from the
\* document: in the text of a page of a pdf, in the text read from an image.
MarkerInRawText(data) ==
    IF data.type = "pdf"
    THEN \E k \in DOMAIN data.pages : IsIn(FooterMarker, data.pages[k].text)
    ELSE IsIn(FooterMarker, GetOr(data, "raw_text", << >>))

\* C29: for a pdf and for an image alike, the text format_as_text returns
\* ends with the footer note exactly when the marker "Resit ini adalah
\* cetakan komputer" is in the text extracted from the document.
C29_FooterIffMarker ==
    (RenderedText /\ call.phase \in {"pdf", "image"}) =>
       (Last(Split(result.value.text)) = FooterNote <=> MarkerInRawText(result.value.data))

\* None of the fields of the pattern table is in the record.
NoFieldParsed(parsed) == \A k \in DOMAIN patterns : ~HasKey(parsed, patterns[k].field)

\* The raw texts of the document in their order: the text of each page of
\* a pdf, the text read from an image.
RawTexts(data) ==
    IF data.type = "pdf" THEN [k \in DOMAIN data.pages |-> data.pages[k].text]
    ELSE <<GetOr(data, "raw_text", << >>)>>

\* The text is the raw text of the document: of each page in page order
\* under its page line, or the text read from the image.
TextIsRaw(data, text) ==
    IF data.type = "pdf"
    THEN /\ StartsWith(text, <<"P", "a", "g", "e", " ", "1", ":", NL>>)
         /\ InOrderFrom(text, [k \in DOMAIN data.pages |->
                                 <<"P", "a", "g", "e", " ">> \o Str(k) \o <<":", NL>>
                                    \o data.pages[k].text \o <<NL>>], 1)
    ELSE StartsWith(text, RawTexts(data)[1] \o <<NL>>) \/ text = RawTexts(data)[1]

\* The markdown holds the raw texts in fenced code blocks, in their order.
MarkdownIsRaw(data, markdown) ==
    /\ Count(markdown, Fence) = 2 * Len(RawTexts(data))
    /\ InOrderFrom(markdown, [k \in DOMAIN RawTexts(data) |->
                                Fence \o <<NL>> \o RawTexts(data)[k] \o <<NL>> \o Fence], 1)

\* C30: for a converted document, format_as_text returns the raw text
\* (every page's text in page order for a pdf, the text read for an image)
\* and format_as_markdown the raw text in fenced code blocks exactly when
\* no field was parsed from the document, payment items or not.
C30_FallbackIffNoField ==
    /\ (RenderedText /\ call.phase \in {"pdf", "image"}) =>
          (TextIsRaw(result.value.data, result.value.text)
              <=> NoFieldParsed(result.value.parsed))
    /\ (RenderedMarkdown /\ call.phase \in {"pdf", "image"}) =>
          (MarkdownIsRaw(result.value.data, result.value.markdown)
              <=> NoFieldParsed(result.value.parsed))

\* The supplied paths that exist and are directories, in input order.
ValidPaths(d, root_paths) == SelectSeq(root_paths, LAMBDA p : Exists(d, p) /\ IsDir(d, p))

StagesBeforeWrite ==
    {"authorize_output", "authorize", "validate", "validate_input", "extract", "render"}

\* The stages the call has been through, and those of them that failed.
StagesDone == {trace[i].ev : i \in {j \in DOMAIN trace : trace[j].ok}}

StagesFailed == {trace[i].ev : i \in {j \in DOMAIN trace : ~trace[j].ok}}

\* The call ends in this step with a failure of a stage before the write.
FailsBeforeWrite ==
    /\ call.op = "save_conversion"
    /\ pc # "done"
    /\ pc' = "done"
    /\ error'.kind \in {"AccessDenied", "NotAFile", "InvalidFormat", "ConversionFailed"}

\* C26: a save_conversion that fails at the authorization of the output or
\* of the input, at the validation of the file or of the format, or at the
\* extraction leaves the tree as it was: the tree changes only in a step of
\* save_conversion taken when every stage before the write has succeeded and
\* the rendered string is there, and then only at the output path.
C26_FailedSaveWritesNothing ==
    [][/\ FailsBeforeWrite =>
             /\ disk' = disk
             /\ \A i \in DOMAIN trace' : trace'[i].ev # "write"
       /\ disk' # disk =>
             /\ call.op = "save_conversion"
             /\ StagesBeforeWrite \subseteq StagesDone
             /\ StagesFailed = {}
             /\ result.ok
             /\ result.value = Rendered(RawData(Resolve(disk, call.path)), call.fmt)
             /\ \A p \in DOMAIN disk : p # Resolve(disk, call.out) => p \in DOMAIN disk' /\ disk'[p] = disk[p]]_vars

\* A save_conversion has failed at the extraction and nothing is at its
\* output path.
C26_Witness ==
    /\ pc = "done"
    /\ call.op = "save_conversion"
    /\ error = ConversionFailed("ExtractionFailure")
    /\ Kind(disk, Resolve(disk, call.out)) = "none"

\* The tools the claim calls unrelated to a conversion.
UnrelatedOps == {"read_directory", "list_roots", "find_documents"}

\* C22: while a convert_document request is inside its extraction, a
\* request for read_directory, list_roots or find_documents that the same
\* server is handling can go on: when it waits to be started it can be
\* started, and when it waits with the answer to its roots query it can be
\* resumed and run to its end.
C22_ExtractionDoesNotBlock ==
    \A t \in Tasks :
        (/\ \E c \in Tasks \ {t} : pc[c] = "extracting"
         /\ call[t].op \in UnrelatedOps)
           => /\ pc[t] = "pending" => ENABLED Begin(t)
              /\ pc[t] = "reply" => ENABLED Resume(t)

\* C24: every hit of find_documents, whatever the pattern and whatever
\* links the tree holds, is a file whose canonical path lies within the
\* root it was found under.
C24_HitsWithinRoot ==
    \A h \in HitsSoFar : IsPrefix(Resolve(disk, h.root), Resolve(disk, h.path))

=============================================================================
